---- MODULE Spec2Model ----
(***************************************************************************)
(* Estimation whist scorer: the rules engine (src/src/lib/rules.ts) and    *)
(* the game state machine of the React component (src/src/App.tsx).        *)
(*                                                                         *)
(* JavaScript arrays are modelled as sequences; a 0-based index i of the   *)
(* source reads element i + 1 (operator At).  A value that the source      *)
(* types as `number | null` is a set with at most one element.  A player   *)
(* name is a sequence of characters so that String.trim can be computed.   *)
(*                                                                         *)
(* Every state updater passed to setGameState is an operator from a game   *)
(* state record [config, rounds, ui] to the next one.  An action applies   *)
(* one updater on the screens where the control that calls it is rendered, *)
(* with inputs that also cover the values the widgets disable, and then    *)
(* runs the persistence effect.                                            *)
(*                                                                         *)
(* lastOp and quitLength are history variables: the handler called last    *)
(* with its argument and whether it changed the game state, and the length *)
(* of the round list left by the latest quit of the current game (0 when   *)
(* the game has not been quit).                                            *)
(*                                                                         *)
(* rulesCall and rulesResult carry one call of an exported function of     *)
(* rules.ts and what it returned (<<>> while the call has not returned).   *)
(* They are used by the specification SpecRules only, which applies each   *)
(* function to arguments drawn from bounded sets.                          *)
(***************************************************************************)
EXTENDS Integers, Sequences, FiniteSets, TLC

VARIABLES config, rounds, ui, savedGameState, storageAvailable, lastOp, quitLength,
          rulesCall, rulesResult

vars == <<config, rounds, ui, savedGameState, storageAvailable, lastOp, quitLength,
          rulesCall, rulesResult>>

----
\* Program constants (rules.ts)
MIN_PLAYERS == 2
MAX_PLAYERS == 8
DECK_SIZE == 52
EXACT_BID_BONUS == 10

\* Bounds of the model
\* MaxBootCards: most cards dealt in the first round (players x starting hand)
\* of the configurations the component boots with.
\* MaxRound: highest round index the Next Round control is followed to.
\* MaxRulesPlayers, MaxRulesHand: most players and largest hand size in the
\* arguments the functions of rules.ts are applied to.
MaxBootCards == 4
MaxRound == 1
MaxRulesPlayers == 4
MaxRulesHand == 6

SUIT_ORDER_CLUBS_START == <<"C", "D", "H", "S", "NT">>
SUIT_ORDER_SPADES_START == <<"S", "H", "D", "C", "NT">>

----
\* Array helpers
At(arr, i) == arr[i + 1]

HasIndex(arr, i) == i >= 0 /\ i < Len(arr)

SetAt(arr, i, v) == [arr EXCEPT ![i + 1] = v]

\* Mutation: the array has one entry too many.
Fill_OneMore(n, v) == [i \in 1..(n + 1) |-> v]

Fill(n, v) == [i \in 1..n |-> v]

Slice(arr, from, to) == SubSeq(arr, from + 1, to)

Max2(a, b) == IF a >= b THEN a ELSE b

Min2(a, b) == IF a <= b THEN a ELSE b

RECURSIVE SumOver(_, _)
SumOver(indices, arr) ==
  IF indices = <<>> THEN 0
  ELSE At(arr, Head(indices)) + SumOver(Tail(indices), arr)

RECURSIVE SumSeq(_)
SumSeq(arr) == IF arr = <<>> THEN 0 ELSE Head(arr) + SumSeq(Tail(arr))

NoValue == {}

NoCall == [fn |-> "none"]

Some(v) == {v}

----
\* rules.ts
clamp(value, min, max) == Max2(min, Min2(max, value))

validateDeckConstraint(numberOfPlayers, startingHandSize) ==
  numberOfPlayers * startingHandSize <= DECK_SIZE

\* Mutation: the second loop starts at 1, so the hand of one card repeats.
generateHandSequence_RepeatsOne(startingHandSize) ==
  IF startingHandSize < 1 THEN <<>>
  ELSE [i \in 1..startingHandSize |-> startingHandSize - i + 1]
       \o [i \in 1..startingHandSize |-> i]

\* Mutation: the loops are swapped, up to the starting hand and down again.
generateHandSequence_UpThenDown(startingHandSize) ==
  IF startingHandSize < 1 THEN <<>>
  ELSE [i \in 1..startingHandSize |-> i]
       \o [i \in 1..(startingHandSize - 1) |-> startingHandSize - i]

generateHandSequence(startingHandSize) ==
  IF startingHandSize < 1 THEN <<>>
  ELSE [i \in 1..startingHandSize |-> startingHandSize - i + 1]
       \o [i \in 1..(startingHandSize - 1) |-> i + 1]

\* Mutation: the cycle skips no-trump (modulo 4 instead of the order's length).
generateSuitCycle_FourSuits(start, roundCount) ==
  LET baseOrder == IF start = "clubs" THEN SUIT_ORDER_CLUBS_START
                   ELSE SUIT_ORDER_SPADES_START
  IN [i \in 1..roundCount |-> At(baseOrder, (i - 1) % 4)]

generateSuitCycle(start, roundCount) ==
  LET baseOrder == IF start = "clubs" THEN SUIT_ORDER_CLUBS_START
                   ELSE SUIT_ORDER_SPADES_START
  IN [i \in 1..roundCount |-> At(baseOrder, (i - 1) % Len(baseOrder))]

\* Mutation: the deal does not rotate.
getDealerIndex_NoRotation(firstDealerIndex, roundIndex, numberOfPlayers) ==
  firstDealerIndex % numberOfPlayers

getDealerIndex(firstDealerIndex, roundIndex, numberOfPlayers) ==
  (firstDealerIndex + roundIndex) % numberOfPlayers

\* Mutation: the order starts with the dealer (offset from 0).
getBiddingOrder_DealerFirst(dealerIndex, numberOfPlayers) ==
  [offset \in 1..numberOfPlayers |-> (dealerIndex + offset - 1) % numberOfPlayers]

\* Mutation: the turn passes the other way round the table.
getBiddingOrder_OtherWayRound(dealerIndex, numberOfPlayers) ==
  [offset \in 1..numberOfPlayers |->
     (dealerIndex + numberOfPlayers - offset) % numberOfPlayers]

getBiddingOrder(dealerIndex, numberOfPlayers) ==
  [offset \in 1..numberOfPlayers |-> (dealerIndex + offset) % numberOfPlayers]

\* Mutation: the dealer leads the first trick.
getFirstLeaderIndex_Dealer(dealerIndex, numberOfPlayers) ==
  dealerIndex % numberOfPlayers

getFirstLeaderIndex(dealerIndex, numberOfPlayers) ==
  (dealerIndex + 1) % numberOfPlayers

\* Mutation: the lower boundary of the forbidden range is off by one.
getForbiddenLastBidValue_LowerBoundary(bids, handSize, biddingOrder) ==
  IF Len(biddingOrder) = 0 THEN NoValue
  ELSE LET otherBidTotal == SumOver(Slice(biddingOrder, 0, Len(biddingOrder) - 1), bids)
           forbiddenValue == handSize - otherBidTotal
       IN IF forbiddenValue >= 1 /\ forbiddenValue <= handSize
          THEN Some(forbiddenValue)
          ELSE NoValue

\* Mutation: the last bidder's own bid is counted with the others'.
getForbiddenLastBidValue_CountsLastBidder(bids, handSize, biddingOrder) ==
  IF Len(biddingOrder) = 0 THEN NoValue
  ELSE LET otherBidTotal == SumOver(biddingOrder, bids)
           forbiddenValue == handSize - otherBidTotal
       IN IF forbiddenValue >= 0 /\ forbiddenValue <= handSize
          THEN Some(forbiddenValue)
          ELSE NoValue

getForbiddenLastBidValue(bids, handSize, biddingOrder) ==
  IF Len(biddingOrder) = 0 THEN NoValue
  ELSE LET otherBidTotal == SumOver(Slice(biddingOrder, 0, Len(biddingOrder) - 1), bids)
           forbiddenValue == handSize - otherBidTotal
       IN IF forbiddenValue >= 0 /\ forbiddenValue <= handSize
          THEN Some(forbiddenValue)
          ELSE NoValue

\* Mutation: the forbidden value is refused for every bidder.
isBidAllowed_AnyBidder(playerIndex, value, bids, handSize, biddingOrder) ==
  IF value < 0 \/ value > handSize THEN FALSE
  ELSE IF Len(biddingOrder) = 0 THEN TRUE
  ELSE LET forbiddenValue == getForbiddenLastBidValue(bids, handSize, biddingOrder)
       IN forbiddenValue = NoValue \/ value \notin forbiddenValue

isBidAllowed(playerIndex, value, bids, handSize, biddingOrder) ==
  IF value < 0 \/ value > handSize THEN FALSE
  ELSE IF Len(biddingOrder) = 0 THEN TRUE
  ELSE IF playerIndex # At(biddingOrder, Len(biddingOrder) - 1) THEN TRUE
  ELSE LET forbiddenValue == getForbiddenLastBidValue(bids, handSize, biddingOrder)
       IN forbiddenValue = NoValue \/ value \notin forbiddenValue

\* Mutation: a missed bid scores nothing.
calculateRoundScore_MissScoresNothing(bid, tricksTaken) ==
  IF bid = tricksTaken THEN tricksTaken + EXACT_BID_BONUS ELSE 0

calculateRoundScore(bid, tricksTaken) ==
  tricksTaken + (IF bid = tricksTaken THEN EXACT_BID_BONUS ELSE 0)

\* Mutation: every player is scored as if the bid had been made exactly.
calculateRoundScores_BidsAsTricks(bids, tricksTaken) ==
  [i \in 1..Len(bids) |-> calculateRoundScore(bids[i], bids[i])]

calculateRoundScores(bids, tricksTaken) ==
  [i \in 1..Len(bids) |-> calculateRoundScore(bids[i], tricksTaken[i])]

\* Mutation: the previous totals are not carried into the new totals.
calculateTotals_NoCarry(previousTotals, roundScores) ==
  [i \in 1..Len(roundScores) |-> roundScores[i]]

calculateTotals(previousTotals, roundScores) ==
  [i \in 1..Len(roundScores) |-> previousTotals[i] + roundScores[i]]

----
\* App.tsx: configuration
RECURSIVE trimStart(_)
trimStart(name) ==
  IF name # <<>> /\ Head(name) = " " THEN trimStart(Tail(name)) ELSE name

RECURSIVE trimEnd(_)
trimEnd(name) ==
  IF name # <<>> /\ name[Len(name)] = " "
  THEN trimEnd(SubSeq(name, 1, Len(name) - 1))
  ELSE name

trim(name) == trimEnd(trimStart(name))

resizePlayerNames(existingNames, count) ==
  LET padded == existingNames
                \o Fill(Max2(0, count - Len(existingNames)), <<>>)
  IN Slice(padded, 0, count)

normalizeSuitStart(value) ==
  IF value = "spades" \/ value = "diamonds" THEN value ELSE "clubs"

createPlayerNames(count) == Fill(count, <<>>)

createDefaultConfig ==
  [numberOfPlayers |-> 4,
   startingHandSize |-> 7,
   suitStart |-> "clubs",
   playerNames |-> createPlayerNames(4),
   firstDealerIndex |-> 0]

createDefaultUI ==
  [screen |-> "config", currentRoundIndex |-> 0, currentBidTurn |-> 0,
   currentTrick |-> 1, currentLeaderIndex |-> 0]

createInitialGameState(cfg) ==
  [config |-> cfg, rounds |-> <<>>, ui |-> createDefaultUI]

getMaxStartingHand(numberOfPlayers) ==
  Max2(1, DECK_SIZE \div numberOfPlayers)

\* Mutation: the largest hand is computed from the player count before it
\* is clamped.
sanitizeConfig_MaxHandFromRawCount(cfg) ==
  LET numberOfPlayers == clamp(cfg.numberOfPlayers, MIN_PLAYERS, MAX_PLAYERS)
      maxStartingHand == getMaxStartingHand(Max2(1, cfg.numberOfPlayers))
      resized == resizePlayerNames(cfg.playerNames, numberOfPlayers)
  IN [numberOfPlayers |-> numberOfPlayers,
      startingHandSize |-> clamp(cfg.startingHandSize, 1, maxStartingHand),
      suitStart |-> normalizeSuitStart(cfg.suitStart),
      playerNames |-> [i \in 1..Len(resized) |-> trim(resized[i])],
      firstDealerIndex |-> clamp(cfg.firstDealerIndex, 0, numberOfPlayers - 1)]

\* Mutation: the first dealer may be one past the last player.
sanitizeConfig_DealerUpToCount(cfg) ==
  LET numberOfPlayers == clamp(cfg.numberOfPlayers, MIN_PLAYERS, MAX_PLAYERS)
      maxStartingHand == getMaxStartingHand(numberOfPlayers)
      resized == resizePlayerNames(cfg.playerNames, numberOfPlayers)
  IN [numberOfPlayers |-> numberOfPlayers,
      startingHandSize |-> clamp(cfg.startingHandSize, 1, maxStartingHand),
      suitStart |-> normalizeSuitStart(cfg.suitStart),
      playerNames |-> [i \in 1..Len(resized) |-> trim(resized[i])],
      firstDealerIndex |-> clamp(cfg.firstDealerIndex, 0, numberOfPlayers)]

sanitizeConfig(cfg) ==
  LET numberOfPlayers == clamp(cfg.numberOfPlayers, MIN_PLAYERS, MAX_PLAYERS)
      maxStartingHand == getMaxStartingHand(numberOfPlayers)
      resized == resizePlayerNames(cfg.playerNames, numberOfPlayers)
  IN [numberOfPlayers |-> numberOfPlayers,
      startingHandSize |-> clamp(cfg.startingHandSize, 1, maxStartingHand),
      suitStart |-> normalizeSuitStart(cfg.suitStart),
      playerNames |-> [i \in 1..Len(resized) |-> trim(resized[i])],
      firstDealerIndex |-> clamp(cfg.firstDealerIndex, 0, numberOfPlayers - 1)]

createRounds(cfg) ==
  LET hands == generateHandSequence(cfg.startingHandSize)
      roundCount == Len(hands)
      suits == generateSuitCycle(cfg.suitStart, roundCount)
  IN [i \in 1..roundCount |->
        [roundIndex |-> i - 1,
         handSize |-> hands[i],
         suit |-> suits[i],
         dealerIndex |-> getDealerIndex(cfg.firstDealerIndex, i - 1, cfg.numberOfPlayers),
         bids |-> Fill(cfg.numberOfPlayers, 0),
         tricksTaken |-> Fill(cfg.numberOfPlayers, 0),
         trickWinners |-> <<>>,
         roundScores |-> Fill(cfg.numberOfPlayers, 0),
         totalsAfterRound |-> Fill(cfg.numberOfPlayers, 0)]]

----
\* App.tsx: state updaters
\* Mutation: one provided name is enough (some instead of every).
startGame_SomeName(s) ==
  LET normalizedConfig == sanitizeConfig(s.config)
      hasAllNames == \E i \in 1..Len(normalizedConfig.playerNames) :
                        Len(trim(normalizedConfig.playerNames[i])) > 0
      newRounds == createRounds(normalizedConfig)
  IN IF ~hasAllNames
        \/ ~validateDeckConstraint(normalizedConfig.numberOfPlayers,
                                   normalizedConfig.startingHandSize)
     THEN s
     ELSE IF ~HasIndex(newRounds, 0) THEN s
     ELSE [config |-> normalizedConfig,
           rounds |-> newRounds,
           ui |-> [screen |-> "bidding",
                   currentRoundIndex |-> 0,
                   currentBidTurn |-> 0,
                   currentTrick |-> 1,
                   currentLeaderIndex |->
                     getFirstLeaderIndex(At(newRounds, 0).dealerIndex,
                                         normalizedConfig.numberOfPlayers)]]

startGame(s) ==
  LET normalizedConfig == sanitizeConfig(s.config)
      hasAllNames == \A i \in 1..Len(normalizedConfig.playerNames) :
                        Len(trim(normalizedConfig.playerNames[i])) > 0
      newRounds == createRounds(normalizedConfig)
  IN IF ~hasAllNames
        \/ ~validateDeckConstraint(normalizedConfig.numberOfPlayers,
                                   normalizedConfig.startingHandSize)
     THEN s
     ELSE IF ~HasIndex(newRounds, 0) THEN s
     ELSE [config |-> normalizedConfig,
           rounds |-> newRounds,
           ui |-> [screen |-> "bidding",
                   currentRoundIndex |-> 0,
                   currentBidTurn |-> 0,
                   currentTrick |-> 1,
                   currentLeaderIndex |->
                     getFirstLeaderIndex(At(newRounds, 0).dealerIndex,
                                         normalizedConfig.numberOfPlayers)]]

resumeSavedGame(s, saved) ==
  IF saved = NoValue THEN s ELSE CHOOSE g \in saved : TRUE

\* Mutation: the forbidden value is refused for every bidder, not only the last.
isForbiddenSelection_AnyBidder(order, playerIndex, forbidden, value) ==
  value \in forbidden

\* Mutation: with a forbidden value in force the last bidder is refused
\* every value.
isForbiddenSelection_EveryValue(order, playerIndex, forbidden, value) ==
  /\ Len(order) > 0
  /\ playerIndex = At(order, Len(order) - 1)
  /\ forbidden # NoValue

isForbiddenSelection(order, playerIndex, forbidden, value) ==
  /\ Len(order) > 0
  /\ playerIndex = At(order, Len(order) - 1)
  /\ value \in forbidden

selectBidForCurrentPlayer(s, value) ==
  LET roundIndex == s.ui.currentRoundIndex
  IN IF ~HasIndex(s.rounds, roundIndex) THEN s
     ELSE
     LET round == At(s.rounds, roundIndex)
     IN IF value < 0 \/ value > round.handSize THEN s
        ELSE
        LET order == getBiddingOrder(round.dealerIndex, s.config.numberOfPlayers)
            bidTurn == clamp(s.ui.currentBidTurn, 0, Len(order))
        IN IF ~HasIndex(order, bidTurn) THEN s
           ELSE
           LET playerIndex == At(order, bidTurn)
               forbidden == getForbiddenLastBidValue(round.bids, round.handSize, order)
           IN IF isForbiddenSelection(order, playerIndex, forbidden, value) THEN s
              ELSE [s EXCEPT
                      !.rounds = SetAt(s.rounds, roundIndex,
                                       [round EXCEPT !.bids = SetAt(round.bids, playerIndex, value)]),
                      !.ui.currentBidTurn = clamp(bidTurn + 1, 0, Len(order))]

\* Mutation: play may begin while the last bidder has still to bid.
beginPlaying_BeforeLastBid(s) ==
  IF s.ui.screen # "bidding" THEN s
  ELSE IF ~HasIndex(s.rounds, s.ui.currentRoundIndex) THEN s
  ELSE
  LET round == At(s.rounds, s.ui.currentRoundIndex)
      order == getBiddingOrder(round.dealerIndex, s.config.numberOfPlayers)
      bidTurn == clamp(s.ui.currentBidTurn, 0, Len(order))
      forbidden == getForbiddenLastBidValue(round.bids, round.handSize, order)
      bidsAreComplete == bidTurn >= Len(order) - 1
      lastBidValid == \/ Len(order) = 0
                      \/ forbidden = NoValue
                      \/ At(round.bids, At(order, Len(order) - 1)) \notin forbidden
  IN IF ~bidsAreComplete \/ ~lastBidValid THEN s
     ELSE [s EXCEPT
             !.rounds = SetAt(s.rounds, s.ui.currentRoundIndex,
                              [round EXCEPT !.trickWinners = <<>>]),
             !.ui.screen = "playing",
             !.ui.currentTrick = 1,
             !.ui.currentLeaderIndex =
                getFirstLeaderIndex(round.dealerIndex, s.config.numberOfPlayers)]

beginPlaying(s) ==
  IF s.ui.screen # "bidding" THEN s
  ELSE IF ~HasIndex(s.rounds, s.ui.currentRoundIndex) THEN s
  ELSE
  LET round == At(s.rounds, s.ui.currentRoundIndex)
      order == getBiddingOrder(round.dealerIndex, s.config.numberOfPlayers)
      bidTurn == clamp(s.ui.currentBidTurn, 0, Len(order))
      forbidden == getForbiddenLastBidValue(round.bids, round.handSize, order)
      bidsAreComplete == bidTurn >= Len(order)
      lastBidValid == \/ Len(order) = 0
                      \/ forbidden = NoValue
                      \/ At(round.bids, At(order, Len(order) - 1)) \notin forbidden
  IN IF ~bidsAreComplete \/ ~lastBidValid THEN s
     ELSE [s EXCEPT
             !.rounds = SetAt(s.rounds, s.ui.currentRoundIndex,
                              [round EXCEPT !.trickWinners = <<>>]),
             !.ui.screen = "playing",
             !.ui.currentTrick = 1,
             !.ui.currentLeaderIndex =
                getFirstLeaderIndex(round.dealerIndex, s.config.numberOfPlayers)]

previousTotalsOf(s, roundIndex) ==
  IF roundIndex = 0 THEN Fill(s.config.numberOfPlayers, 0)
  ELSE At(s.rounds, roundIndex - 1).totalsAfterRound

\* Mutation: the round completes one trick late (> instead of >=).
recordTrickWinner_OneTrickTooMany(s, winnerIndex) ==
  LET roundIndex == s.ui.currentRoundIndex
  IN IF \/ ~HasIndex(s.rounds, roundIndex)
        \/ winnerIndex < 0
        \/ winnerIndex >= s.config.numberOfPlayers
     THEN s
     ELSE
     LET round == At(s.rounds, roundIndex)
         nextTricksTaken == SetAt(round.tricksTaken, winnerIndex,
                                  At(round.tricksTaken, winnerIndex) + 1)
         nextTrickWinners == Append(round.trickWinners, winnerIndex)
         roundCompleted == s.ui.currentTrick > round.handSize
         roundScores == calculateRoundScores(round.bids, nextTricksTaken)
         totalsAfterRound == calculateTotals(previousTotalsOf(s, roundIndex), roundScores)
         updatedRound ==
           IF roundCompleted
           THEN [round EXCEPT !.tricksTaken = nextTricksTaken,
                              !.trickWinners = nextTrickWinners,
                              !.roundScores = roundScores,
                              !.totalsAfterRound = totalsAfterRound]
           ELSE [round EXCEPT !.tricksTaken = nextTricksTaken,
                              !.trickWinners = nextTrickWinners]
     IN [s EXCEPT
           !.rounds = SetAt(s.rounds, roundIndex, updatedRound),
           !.ui.currentLeaderIndex = winnerIndex,
           !.ui.screen = IF roundCompleted THEN "summary" ELSE s.ui.screen,
           !.ui.currentTrick = IF roundCompleted THEN s.ui.currentTrick
                               ELSE s.ui.currentTrick + 1]

recordTrickWinner(s, winnerIndex) ==
  LET roundIndex == s.ui.currentRoundIndex
  IN IF \/ ~HasIndex(s.rounds, roundIndex)
        \/ winnerIndex < 0
        \/ winnerIndex >= s.config.numberOfPlayers
     THEN s
     ELSE
     LET round == At(s.rounds, roundIndex)
         nextTricksTaken == SetAt(round.tricksTaken, winnerIndex,
                                  At(round.tricksTaken, winnerIndex) + 1)
         nextTrickWinners == Append(round.trickWinners, winnerIndex)
         roundCompleted == s.ui.currentTrick >= round.handSize
         roundScores == calculateRoundScores(round.bids, nextTricksTaken)
         totalsAfterRound == calculateTotals(previousTotalsOf(s, roundIndex), roundScores)
         updatedRound ==
           IF roundCompleted
           THEN [round EXCEPT !.tricksTaken = nextTricksTaken,
                              !.trickWinners = nextTrickWinners,
                              !.roundScores = roundScores,
                              !.totalsAfterRound = totalsAfterRound]
           ELSE [round EXCEPT !.tricksTaken = nextTricksTaken,
                              !.trickWinners = nextTrickWinners]
     IN [s EXCEPT
           !.rounds = SetAt(s.rounds, roundIndex, updatedRound),
           !.ui.currentLeaderIndex = winnerIndex,
           !.ui.screen = IF roundCompleted THEN "summary" ELSE s.ui.screen,
           !.ui.currentTrick = IF roundCompleted THEN s.ui.currentTrick
                               ELSE s.ui.currentTrick + 1]

\* Mutation: after an undo the first leader always leads.
leaderBeforeUndoneTrick_FirstLeader(nextTrickWinners, firstLeader) ==
  firstLeader

leaderBeforeUndoneTrick(nextTrickWinners, firstLeader) ==
  IF Len(nextTrickWinners) > 0
  THEN At(nextTrickWinners, Len(nextTrickWinners) - 1)
  ELSE firstLeader

\* Mutation: the undo returns to the first bidder's turn.
lastBidTurn_FirstBidder(biddingOrder) == 0

lastBidTurn(biddingOrder) == Max2(0, Len(biddingOrder) - 1)

\* Mutation: the first bid cannot be retracted (<= 1 instead of <= 0).
undoGameAction_FirstBidStays(s) ==
  IF s.ui.screen = "bidding"
  THEN IF s.ui.currentBidTurn <= 1 THEN s
       ELSE [s EXCEPT !.ui.currentBidTurn = s.ui.currentBidTurn - 1]
  ELSE IF s.ui.screen # "playing" /\ s.ui.screen # "summary" THEN s
  ELSE IF ~HasIndex(s.rounds, s.ui.currentRoundIndex) THEN s
  ELSE
  LET roundIndex == s.ui.currentRoundIndex
      round == At(s.rounds, roundIndex)
      firstLeader == getFirstLeaderIndex(round.dealerIndex, s.config.numberOfPlayers)
  IN IF s.ui.screen = "playing" /\ Len(round.trickWinners) = 0
     THEN LET biddingOrder == getBiddingOrder(round.dealerIndex, s.config.numberOfPlayers)
          IN [s EXCEPT
                !.ui.screen = "bidding",
                !.ui.currentBidTurn = lastBidTurn(biddingOrder),
                !.ui.currentTrick = 1,
                !.ui.currentLeaderIndex = firstLeader]
     ELSE IF Len(round.trickWinners) = 0 THEN s
     ELSE
     LET undoneWinnerIndex == At(round.trickWinners, Len(round.trickWinners) - 1)
         nextTricksTaken == SetAt(round.tricksTaken, undoneWinnerIndex,
                                  Max2(0, At(round.tricksTaken, undoneWinnerIndex) - 1))
         nextTrickWinners == Slice(round.trickWinners, 0, Len(round.trickWinners) - 1)
         zeroScores == Fill(s.config.numberOfPlayers, 0)
         fromSummary == s.ui.screen = "summary"
     IN [s EXCEPT
           !.rounds = SetAt(s.rounds, roundIndex,
                        [round EXCEPT
                           !.tricksTaken = nextTricksTaken,
                           !.trickWinners = nextTrickWinners,
                           !.roundScores = IF fromSummary THEN zeroScores
                                           ELSE round.roundScores,
                           !.totalsAfterRound = IF fromSummary
                                                THEN previousTotalsOf(s, roundIndex)
                                                ELSE round.totalsAfterRound]),
           !.ui.screen = "playing",
           !.ui.currentTrick = IF fromSummary THEN round.handSize
                               ELSE Max2(1, s.ui.currentTrick - 1),
           !.ui.currentLeaderIndex =
              leaderBeforeUndoneTrick(nextTrickWinners, firstLeader)]

undoGameAction(s) ==
  IF s.ui.screen = "bidding"
  THEN IF s.ui.currentBidTurn <= 0 THEN s
       ELSE [s EXCEPT !.ui.currentBidTurn = s.ui.currentBidTurn - 1]
  ELSE IF s.ui.screen # "playing" /\ s.ui.screen # "summary" THEN s
  ELSE IF ~HasIndex(s.rounds, s.ui.currentRoundIndex) THEN s
  ELSE
  LET roundIndex == s.ui.currentRoundIndex
      round == At(s.rounds, roundIndex)
      firstLeader == getFirstLeaderIndex(round.dealerIndex, s.config.numberOfPlayers)
  IN IF s.ui.screen = "playing" /\ Len(round.trickWinners) = 0
     THEN LET biddingOrder == getBiddingOrder(round.dealerIndex, s.config.numberOfPlayers)
          IN [s EXCEPT
                !.ui.screen = "bidding",
                !.ui.currentBidTurn = lastBidTurn(biddingOrder),
                !.ui.currentTrick = 1,
                !.ui.currentLeaderIndex = firstLeader]
     ELSE IF Len(round.trickWinners) = 0 THEN s
     ELSE
     LET undoneWinnerIndex == At(round.trickWinners, Len(round.trickWinners) - 1)
         nextTricksTaken == SetAt(round.tricksTaken, undoneWinnerIndex,
                                  Max2(0, At(round.tricksTaken, undoneWinnerIndex) - 1))
         nextTrickWinners == Slice(round.trickWinners, 0, Len(round.trickWinners) - 1)
         zeroScores == Fill(s.config.numberOfPlayers, 0)
         fromSummary == s.ui.screen = "summary"
     IN [s EXCEPT
           !.rounds = SetAt(s.rounds, roundIndex,
                        [round EXCEPT
                           !.tricksTaken = nextTricksTaken,
                           !.trickWinners = nextTrickWinners,
                           !.roundScores = IF fromSummary THEN zeroScores
                                           ELSE round.roundScores,
                           !.totalsAfterRound = IF fromSummary
                                                THEN previousTotalsOf(s, roundIndex)
                                                ELSE round.totalsAfterRound]),
           !.ui.screen = "playing",
           !.ui.currentTrick = IF fromSummary THEN round.handSize
                               ELSE Max2(1, s.ui.currentTrick - 1),
           !.ui.currentLeaderIndex =
              leaderBeforeUndoneTrick(nextTrickWinners, firstLeader)]

\* Mutation: the bid-turn of the finished round is carried into the next.
moveToNextRound_KeepsBidTurn(s) ==
  LET nextRoundIndex == s.ui.currentRoundIndex + 1
  IN IF ~HasIndex(s.rounds, nextRoundIndex) THEN s
     ELSE [s EXCEPT
             !.ui = [screen |-> "bidding",
                     currentRoundIndex |-> nextRoundIndex,
                     currentBidTurn |-> s.ui.currentBidTurn,
                     currentTrick |-> 1,
                     currentLeaderIndex |->
                       getFirstLeaderIndex(At(s.rounds, nextRoundIndex).dealerIndex,
                                           s.config.numberOfPlayers)]]

\* Mutation: the round after the next one is opened.
moveToNextRound_SkipsRound(s) ==
  LET nextRoundIndex == s.ui.currentRoundIndex + 2
  IN IF ~HasIndex(s.rounds, nextRoundIndex) THEN s
     ELSE [s EXCEPT
             !.ui = [screen |-> "bidding",
                     currentRoundIndex |-> nextRoundIndex,
                     currentBidTurn |-> 0,
                     currentTrick |-> 1,
                     currentLeaderIndex |->
                       getFirstLeaderIndex(At(s.rounds, nextRoundIndex).dealerIndex,
                                           s.config.numberOfPlayers)]]

moveToNextRound(s) ==
  LET nextRoundIndex == s.ui.currentRoundIndex + 1
  IN IF ~HasIndex(s.rounds, nextRoundIndex) THEN s
     ELSE [s EXCEPT
             !.ui = [screen |-> "bidding",
                     currentRoundIndex |-> nextRoundIndex,
                     currentBidTurn |-> 0,
                     currentTrick |-> 1,
                     currentLeaderIndex |->
                       getFirstLeaderIndex(At(s.rounds, nextRoundIndex).dealerIndex,
                                           s.config.numberOfPlayers)]]

\* Mutation: the round that is quit during play is left unscored.
quitScoredRound_Unscored(round, roundIndex, kept, zeroTotals) == round

quitScoredRound(round, roundIndex, kept, zeroTotals) ==
  LET roundScores == calculateRoundScores(round.bids, round.tricksTaken)
      previousTotals == IF roundIndex = 0 THEN zeroTotals
                        ELSE At(kept, roundIndex - 1).totalsAfterRound
      totalsAfterRound == calculateTotals(previousTotals, roundScores)
  IN [round EXCEPT !.roundScores = roundScores,
                   !.totalsAfterRound = totalsAfterRound]

\* Mutation: a quit during bidding keeps the round that is being bid.
quitBiddingKept_KeepsCurrent(allRounds, roundIndex) ==
  Slice(allRounds, 0, Min2(Len(allRounds), roundIndex + 1))

quitBiddingKept(allRounds, roundIndex) == Slice(allRounds, 0, roundIndex)

quitGame(s) ==
  LET roundIndex == s.ui.currentRoundIndex
      playerCount == s.config.numberOfPlayers
      zeroTotals == Fill(playerCount, 0)
      finish(truncated) ==
        LET nextRounds ==
              IF Len(truncated) = 0
              THEN LET hasFirst == HasIndex(s.rounds, 0)
                   IN << [roundIndex |-> 0,
                          handSize |-> IF hasFirst THEN At(s.rounds, 0).handSize
                                       ELSE s.config.startingHandSize,
                          suit |-> IF hasFirst THEN At(s.rounds, 0).suit
                                   ELSE At(generateSuitCycle(s.config.suitStart, 1), 0),
                          dealerIndex |-> IF hasFirst THEN At(s.rounds, 0).dealerIndex
                                          ELSE s.config.firstDealerIndex,
                          bids |-> Fill(playerCount, 0),
                          tricksTaken |-> Fill(playerCount, 0),
                          trickWinners |-> <<>>,
                          roundScores |-> Fill(playerCount, 0),
                          totalsAfterRound |-> zeroTotals] >>
              ELSE truncated
            finalRoundIndex == Len(nextRounds) - 1
        IN [s EXCEPT
              !.rounds = nextRounds,
              !.ui.screen = "summary",
              !.ui.currentRoundIndex = finalRoundIndex,
              !.ui.currentBidTurn = 0,
              !.ui.currentTrick = 1,
              !.ui.currentLeaderIndex =
                 getFirstLeaderIndex(At(nextRounds, finalRoundIndex).dealerIndex, playerCount)]
  IN IF s.ui.screen = "bidding"
     THEN finish(quitBiddingKept(s.rounds, roundIndex))
     ELSE IF s.ui.screen = "playing"
     THEN IF ~HasIndex(s.rounds, roundIndex) THEN s
          ELSE LET kept == Slice(s.rounds, 0, roundIndex + 1)
               IN finish(SetAt(kept, roundIndex,
                               quitScoredRound(At(s.rounds, roundIndex), roundIndex,
                                               kept, zeroTotals)))
     ELSE IF s.ui.screen = "summary"
     THEN finish(Slice(s.rounds, 0, Min2(Len(s.rounds), roundIndex + 1)))
     ELSE s

\* Mutation: the configuration is reset to the default one.
newGame_DefaultConfig(s) ==
  [config |-> createDefaultConfig, rounds |-> <<>>, ui |-> createDefaultUI]

\* Mutation: a new game opens on the bidding screen.
newGame_StartsBidding(s) ==
  [config |-> sanitizeConfig(s.config), rounds |-> <<>>,
   ui |-> [createDefaultUI EXCEPT !.screen = "bidding"]]

newGame(s) ==
  [config |-> sanitizeConfig(s.config), rounds |-> <<>>, ui |-> createDefaultUI]

----
\* App.tsx: the snapshot in localStorage
\* A JSON text is kept as its tree of values, each tagged with its kind.
jsonNumber(n) == [kind |-> "number", value |-> n]

jsonString(str) == [kind |-> "string", value |-> str]

jsonArray(items) == [kind |-> "array", items |-> items]

jsonObject(members) == [kind |-> "object", members |-> members]

jsonNumbers(arr) == jsonArray([i \in 1..Len(arr) |-> jsonNumber(arr[i])])

stringifyConfig(cfg) ==
  jsonObject([numberOfPlayers |-> jsonNumber(cfg.numberOfPlayers),
              startingHandSize |-> jsonNumber(cfg.startingHandSize),
              suitStart |-> jsonString(cfg.suitStart),
              playerNames |-> jsonArray([i \in 1..Len(cfg.playerNames) |->
                                           jsonString(cfg.playerNames[i])]),
              firstDealerIndex |-> jsonNumber(cfg.firstDealerIndex)])

stringifyRound(round) ==
  jsonObject([roundIndex |-> jsonNumber(round.roundIndex),
              handSize |-> jsonNumber(round.handSize),
              suit |-> jsonString(round.suit),
              dealerIndex |-> jsonNumber(round.dealerIndex),
              bids |-> jsonNumbers(round.bids),
              tricksTaken |-> jsonNumbers(round.tricksTaken),
              trickWinners |-> jsonNumbers(round.trickWinners),
              roundScores |-> jsonNumbers(round.roundScores),
              totalsAfterRound |-> jsonNumbers(round.totalsAfterRound)])

stringifyUI(u) ==
  jsonObject([screen |-> jsonString(u.screen),
              currentRoundIndex |-> jsonNumber(u.currentRoundIndex),
              currentBidTurn |-> jsonNumber(u.currentBidTurn),
              currentTrick |-> jsonNumber(u.currentTrick),
              currentLeaderIndex |-> jsonNumber(u.currentLeaderIndex)])

\* JSON.stringify(gameState)
stringifyGameState(s) ==
  jsonObject([config |-> stringifyConfig(s.config),
              rounds |-> jsonArray([i \in 1..Len(s.rounds) |-> stringifyRound(s.rounds[i])]),
              ui |-> stringifyUI(s.ui)])

\* JSON.parse: a number or a string yields its value, an array the list of
\* its parsed items, an object its parsed members under the same names.
parseValues(raw) == [i \in 1..Len(raw.items) |-> raw.items[i].value]

parseConfig(raw) ==
  [numberOfPlayers |-> raw.members.numberOfPlayers.value,
   startingHandSize |-> raw.members.startingHandSize.value,
   suitStart |-> raw.members.suitStart.value,
   playerNames |-> parseValues(raw.members.playerNames),
   firstDealerIndex |-> raw.members.firstDealerIndex.value]

parseRound(raw) ==
  [roundIndex |-> raw.members.roundIndex.value,
   handSize |-> raw.members.handSize.value,
   suit |-> raw.members.suit.value,
   dealerIndex |-> raw.members.dealerIndex.value,
   bids |-> parseValues(raw.members.bids),
   tricksTaken |-> parseValues(raw.members.tricksTaken),
   trickWinners |-> parseValues(raw.members.trickWinners),
   roundScores |-> parseValues(raw.members.roundScores),
   totalsAfterRound |-> parseValues(raw.members.totalsAfterRound)]

parseUI(raw) ==
  [screen |-> raw.members.screen.value,
   currentRoundIndex |-> raw.members.currentRoundIndex.value,
   currentBidTurn |-> raw.members.currentBidTurn.value,
   currentTrick |-> raw.members.currentTrick.value,
   currentLeaderIndex |-> raw.members.currentLeaderIndex.value]

\* JSON.parse(raw) of a snapshot text
parse(raw) ==
  [config |-> parseConfig(raw.members.config),
   rounds |-> [i \in 1..Len(raw.members.rounds.items) |->
                 parseRound(raw.members.rounds.items[i])],
   ui |-> parseUI(raw.members.ui)]

\* Mutation: a trick won by seat 0 is filtered out of the history.
readSavedGameState_DropsSeatZero(raw) ==
  IF raw = NoValue THEN NoValue
  ELSE LET parsed == parse(CHOOSE text \in raw : TRUE)
           sanitizedConfig == sanitizeConfig(parsed.config)
           sanitizedRounds ==
             [i \in 1..Len(parsed.rounds) |->
                [parsed.rounds[i] EXCEPT
                   !.trickWinners =
                      SelectSeq(parsed.rounds[i].trickWinners,
                                LAMBDA winnerIndex :
                                  winnerIndex > 0
                                    /\ winnerIndex < sanitizedConfig.numberOfPlayers)]]
           maxRoundIndex == Max2(0, Len(sanitizedRounds) - 1)
           currentRoundIndex == clamp(parsed.ui.currentRoundIndex, 0, maxRoundIndex)
           maxBidTurn == IF HasIndex(sanitizedRounds, currentRoundIndex)
                         THEN sanitizedConfig.numberOfPlayers
                         ELSE 0
           currentBidTurn == clamp(parsed.ui.currentBidTurn, 0, maxBidTurn)
       IN Some([config |-> sanitizedConfig,
                rounds |-> sanitizedRounds,
                ui |-> [parsed.ui EXCEPT !.currentRoundIndex = currentRoundIndex,
                                         !.currentBidTurn = currentBidTurn]])

\* readSavedGameState, given the text under the resume key (NoValue when
\* the key is absent)
readSavedGameState(raw) ==
  IF raw = NoValue THEN NoValue
  ELSE LET parsed == parse(CHOOSE text \in raw : TRUE)
           sanitizedConfig == sanitizeConfig(parsed.config)
           sanitizedRounds ==
             [i \in 1..Len(parsed.rounds) |->
                [parsed.rounds[i] EXCEPT
                   !.trickWinners =
                      SelectSeq(parsed.rounds[i].trickWinners,
                                LAMBDA winnerIndex :
                                  winnerIndex >= 0
                                    /\ winnerIndex < sanitizedConfig.numberOfPlayers)]]
           maxRoundIndex == Max2(0, Len(sanitizedRounds) - 1)
           currentRoundIndex == clamp(parsed.ui.currentRoundIndex, 0, maxRoundIndex)
           maxBidTurn == IF HasIndex(sanitizedRounds, currentRoundIndex)
                         THEN sanitizedConfig.numberOfPlayers
                         ELSE 0
           currentBidTurn == clamp(parsed.ui.currentBidTurn, 0, maxBidTurn)
       IN Some([config |-> sanitizedConfig,
                rounds |-> sanitizedRounds,
                ui |-> [parsed.ui EXCEPT !.currentRoundIndex = currentRoundIndex,
                                         !.currentBidTurn = currentBidTurn]])

\* readSavedConfig, given the text under the configuration key
readSavedConfig(raw) ==
  LET parsed == parseConfig(raw)
      defaultConfig == createDefaultConfig
      playerNames == IF Len(parsed.playerNames) > 0 THEN parsed.playerNames
                     ELSE defaultConfig.playerNames
      mergedConfig == [numberOfPlayers |-> parsed.numberOfPlayers,
                       startingHandSize |-> parsed.startingHandSize,
                       suitStart |-> normalizeSuitStart(parsed.suitStart),
                       playerNames |-> playerNames,
                       firstDealerIndex |-> parsed.firstDealerIndex]
  IN sanitizeConfig(mergedConfig)

\* getBootState, given the two stored texts; the configuration key is
\* written at mount, so it is present at every later boot.
getBootState(rawGameState, rawConfig) ==
  [savedGameState |-> readSavedGameState(rawGameState),
   initialConfig |-> readSavedConfig(rawConfig)]

----
\* The component's state
GameState == [config |-> config, rounds |-> rounds, ui |-> ui]

currentRoundExists == HasIndex(rounds, ui.currentRoundIndex)

currentRound == At(rounds, ui.currentRoundIndex)

isFinalRound == ui.currentRoundIndex >= Len(rounds) - 1

BootNames == {<<>>, <<"T">>}

BootConfigs ==
  { c \in [numberOfPlayers : MIN_PLAYERS..Min2(MAX_PLAYERS, MaxBootCards),
           startingHandSize : 1..(MaxBootCards \div MIN_PLAYERS),
           suitStart : {"clubs", "spades", "diamonds"},
           playerNames : UNION { [1..n -> BootNames] :
                                   n \in MIN_PLAYERS..Min2(MAX_PLAYERS, MaxBootCards) },
           firstDealerIndex : 0..(Min2(MAX_PLAYERS, MaxBootCards) - 1)] :
      /\ sanitizeConfig(c) = c
      /\ c.numberOfPlayers * c.startingHandSize <= MaxBootCards }

Init ==
  /\ config \in BootConfigs
  /\ rounds = <<>>
  /\ ui = createDefaultUI
  /\ savedGameState = NoValue
  /\ storageAvailable = TRUE
  /\ lastOp = [op |-> "boot", arg |-> 0, changed |-> FALSE]
  /\ quitLength = 0
  /\ rulesCall = NoCall
  /\ rulesResult = <<>>

\* History kept for the properties; it never influences the component.
History(next, op, arg) ==
  /\ lastOp' = [op |-> op, arg |-> arg, changed |-> next # GameState]
  /\ quitLength' = IF op = "quit_game" /\ arg = 1 THEN Len(next.rounds)
                   ELSE IF op = "start_game" /\ next # GameState THEN 0
                   ELSE quitLength

\* Mutation: the snapshot is not rewritten after a quit.
Commit_StaleSnapshotAfterQuit(next, op, arg) ==
  /\ config' = next.config
  /\ rounds' = next.rounds
  /\ ui' = next.ui
  /\ savedGameState' = IF next.rounds # <<>> /\ storageAvailable /\ next # GameState
                          /\ op # "quit_game"
                       THEN Some(next)
                       ELSE savedGameState
  /\ UNCHANGED <<storageAvailable, rulesCall, rulesResult>>
  /\ History(next, op, arg)

\* Mutation: a failed snapshot write undoes the transition.
Commit_RollsBackOnFailedWrite(next, op, arg) ==
  LET writeFails == next.rounds # <<>> /\ ~storageAvailable /\ next # GameState
      kept == IF writeFails THEN GameState ELSE next
  IN /\ config' = kept.config
     /\ rounds' = kept.rounds
     /\ ui' = kept.ui
     /\ savedGameState' = IF next.rounds # <<>> /\ storageAvailable /\ next # GameState
                          THEN Some(next)
                          ELSE savedGameState
     /\ UNCHANGED <<storageAvailable, rulesCall, rulesResult>>
     /\ History(next, op, arg)

\* setGameState(next) followed by the resume snapshot effect
Commit(next, op, arg) ==
  /\ config' = next.config
  /\ rounds' = next.rounds
  /\ ui' = next.ui
  /\ savedGameState' = IF next.rounds # <<>> /\ storageAvailable /\ next # GameState
                       THEN Some(next)
                       ELSE savedGameState
  /\ UNCHANGED <<storageAvailable, rulesCall, rulesResult>>
  /\ History(next, op, arg)

StartGame ==
  /\ ui.screen = "config"
  /\ Commit(startGame(GameState), "start_game", 0)

ResumeSavedGame ==
  /\ ui.screen = "config"
  /\ Commit(resumeSavedGame(GameState, savedGameState), "resume", 0)

SelectBid ==
  /\ ui.screen = "bidding"
  /\ currentRoundExists
  /\ \E value \in -1..(currentRound.handSize + 1) :
       Commit(selectBidForCurrentPlayer(GameState, value), "select_bid", value)

biddingComplete ==
  currentRoundExists
  /\ clamp(ui.currentBidTurn, 0, config.numberOfPlayers) >= config.numberOfPlayers

biddingStateIsValid ==
  /\ currentRoundExists
  /\ biddingComplete
  /\ LET order == getBiddingOrder(currentRound.dealerIndex, config.numberOfPlayers)
         forbidden == getForbiddenLastBidValue(currentRound.bids, currentRound.handSize, order)
     IN Len(order) > 0
        /\ (forbidden = NoValue
            \/ At(currentRound.bids, At(order, Len(order) - 1)) \notin forbidden)

BeginPlaying ==
  /\ ui.screen = "bidding"
  /\ biddingComplete
  /\ biddingStateIsValid
  /\ Commit(beginPlaying(GameState), "begin_playing", 0)

RecordTrickWinner ==
  /\ ui.screen = "playing"
  /\ currentRoundExists
  /\ \E winnerIndex \in -1..config.numberOfPlayers :
       Commit(recordTrickWinner(GameState, winnerIndex), "record_trick_winner", winnerIndex)

Undo ==
  /\ ui.screen # "config"
  /\ currentRoundExists
  /\ Commit(undoGameAction(GameState), "undo", 0)

MoveToNextRound ==
  /\ ui.screen = "summary"
  /\ ~isFinalRound
  /\ ui.currentRoundIndex + 1 <= MaxRound
  /\ Commit(moveToNextRound(GameState), "next_round", 0)

QuitGame ==
  /\ \/ ui.screen \in {"bidding", "playing"}
     \/ ui.screen = "summary" /\ ~isFinalRound
  /\ \E confirmed \in (IF ui.screen \in {"bidding", "playing"} THEN BOOLEAN ELSE {TRUE}) :
       Commit(IF confirmed THEN quitGame(GameState) ELSE GameState,
              "quit_game", IF confirmed THEN 1 ELSE 0)

NewGame ==
  /\ ui.screen = "summary"
  /\ isFinalRound
  /\ Commit(newGame(GameState), "new_game", 0)

Next ==
  \/ StartGame
  \/ ResumeSavedGame
  \/ SelectBid
  \/ BeginPlaying
  \/ RecordTrickWinner
  \/ Undo
  \/ MoveToNextRound
  \/ QuitGame
  \/ NewGame

Spec == Init /\ [][Next]_vars

----
\* An operation that is refused leaves configuration, rounds and cursor
\* as they are and gives the snapshot effect nothing to write. These are
\* the operations, resume apart, taken when they change the state.
ChangingStep ==
  \/ StartGame /\ lastOp'.changed
  \/ SelectBid /\ lastOp'.changed
  \/ BeginPlaying /\ lastOp'.changed
  \/ RecordTrickWinner /\ lastOp'.changed
  \/ Undo /\ lastOp'.changed
  \/ MoveToNextRound /\ lastOp'.changed
  \/ QuitGame /\ lastOp'.changed
  \/ NewGame /\ lastOp'.changed

\* The game in a browser whose store refuses every write (quota of zero,
\* private mode): localStorage.setItem throws inside the snapshot effect
\* and the catch block discards the exception.
InitStorage ==
  /\ config \in BootConfigs
  /\ rounds = <<>>
  /\ ui = createDefaultUI
  /\ savedGameState = NoValue
  /\ storageAvailable = FALSE
  /\ lastOp = [op |-> "boot", arg |-> 0, changed |-> FALSE]
  /\ quitLength = 0
  /\ rulesCall = NoCall
  /\ rulesResult = <<>>

\* Resume has no snapshot to return to and is refused.
NextStorage ==
  \/ ChangingStep
  \/ ResumeSavedGame

SpecStorage == InitStorage /\ [][NextStorage]_vars

----
\* The game with page reloads: the component is mounted again from what
\* the two storage keys hold, the snapshot last written and the current
\* configuration.
Reload ==
  LET rawGameState == IF savedGameState = NoValue THEN NoValue
                      ELSE Some(stringifyGameState(CHOOSE g \in savedGameState : TRUE))
      bootState == getBootState(rawGameState, stringifyConfig(config))
  IN /\ \E next \in {createInitialGameState(bootState.initialConfig)} :
          /\ config' = next.config
          /\ rounds' = next.rounds
          /\ ui' = next.ui
          /\ History(next, "reload", 0)
     /\ savedGameState' = bootState.savedGameState
     /\ UNCHANGED <<storageAvailable, rulesCall, rulesResult>>

\* After a reload the game is started afresh; resuming would only return
\* to the state the snapshot was taken of.
NextReload ==
  \/ ChangingStep
  \/ Reload

SpecReload == Init /\ [][NextReload]_vars

----
\* The game played straight through: no undo, no quit, no new game, no
\* resume. Bids and trick winners are entered, the begin-playing effect
\* runs, and Next Round is pressed on every summary that has a following
\* round, however long the schedule. A refused bid or winner leaves
\* configuration, rounds and cursor as they are, so it is a stuttering step
\* of the game and is not listed.
AcceptedSelectBid == SelectBid /\ lastOp'.changed

AcceptedRecordTrickWinner == RecordTrickWinner /\ lastOp'.changed

NextScheduledRound ==
  /\ ui.screen = "summary"
  /\ ~isFinalRound
  /\ Commit(moveToNextRound(GameState), "next_round", 0)

NextProgress ==
  \/ StartGame
  \/ AcceptedSelectBid
  \/ BeginPlaying
  \/ AcceptedRecordTrickWinner
  \/ NextScheduledRound

\* The steps that advance the game; each screen enables one kind of them.
ProgressStep ==
  \/ AcceptedSelectBid
  \/ BeginPlaying
  \/ AcceptedRecordTrickWinner
  \/ NextScheduledRound

\* The effect that begins play runs whenever its condition holds, and the
\* players keep entering a bid that is accepted, the winner of the trick,
\* and Next Round: a progress step that stays enabled is taken.
SpecProgress ==
  /\ Init
  /\ [][NextProgress]_vars
  /\ WF_vars(ProgressStep)

----
\* startGame as a function of the configuration: the configuration is drawn
\* from raw values on both sides of every range that sanitizeConfig clamps,
\* and Start Game is applied to it.
RawPlayerCounts == {1, 2, 3, 8, 9}

RawHandSizes == {0, 1, 6, 7, 17, 18, 26, 27}

RawDealers == {-1, 0, 1, 7, 8}

RawSuitStarts == {"clubs", "spades", "diamonds", "hearts"}

RawNames == {<<>>, <<" ">>, <<"T">>, <<" ", "T", " ">>}

RawNameLists ==
  { Fill(count, name) : count \in {0, 2, 3, 8, 9}, name \in RawNames }
    \cup { <<first, second>> : first \in RawNames, second \in RawNames }

RawConfigs ==
  [numberOfPlayers : RawPlayerCounts,
   startingHandSize : RawHandSizes,
   suitStart : RawSuitStarts,
   playerNames : RawNameLists,
   firstDealerIndex : RawDealers]

InitRawConfig ==
  /\ config \in RawConfigs \cup {createDefaultConfig}
  /\ rounds = <<>>
  /\ ui = createDefaultUI
  /\ savedGameState = NoValue
  /\ storageAvailable = TRUE
  /\ lastOp = [op |-> "boot", arg |-> 0, changed |-> FALSE]
  /\ quitLength = 0
  /\ rulesCall = NoCall
  /\ rulesResult = <<>>

NextRawConfig == StartGame

SpecRawConfig == InitRawConfig /\ [][NextRawConfig]_vars

----
\* One full-size game: four named players, starting hand 7, first dealer 0,
\* played through its first round with bids 0 or 7 and player 1 winning
\* the tricks.
TraceConfig ==
  [numberOfPlayers |-> 4,
   startingHandSize |-> 7,
   suitStart |-> "clubs",
   playerNames |-> << <<"A">>, <<"B">>, <<"C">>, <<"D">> >>,
   firstDealerIndex |-> 0]

TraceBidValues == {0, 7}

TraceWinners == {1}

InitTrace ==
  /\ config = TraceConfig
  /\ rounds = <<>>
  /\ ui = createDefaultUI
  /\ savedGameState = NoValue
  /\ storageAvailable = TRUE
  /\ lastOp = [op |-> "boot", arg |-> 0, changed |-> FALSE]
  /\ quitLength = 0
  /\ rulesCall = NoCall
  /\ rulesResult = <<>>

TraceSelectBid ==
  /\ ui.screen = "bidding"
  /\ currentRoundExists
  /\ \E value \in TraceBidValues :
       Commit(selectBidForCurrentPlayer(GameState, value), "select_bid", value)

TraceRecordTrickWinner ==
  /\ ui.screen = "playing"
  /\ currentRoundExists
  /\ \E winnerIndex \in TraceWinners :
       Commit(recordTrickWinner(GameState, winnerIndex), "record_trick_winner", winnerIndex)

NextTrace ==
  \/ StartGame
  \/ TraceSelectBid
  \/ BeginPlaying
  \/ TraceRecordTrickWinner

SpecTrace == InitTrace /\ [][NextTrace]_vars

----
\* The functions of rules.ts applied to arguments drawn from bounded sets.
\* Bids may be negative or exceed the hand: the functions do not check them.
RulesBidValues == {-1, 0, 1, 4}

RulesPlayerCounts == 1..MaxRulesPlayers

RulesHandSizes == 0..MaxRulesHand

RulesBiddingOrders(numberOfPlayers) ==
  {<<>>} \cup { getBiddingOrder(dealerIndex, numberOfPlayers) :
                  dealerIndex \in 0..(numberOfPlayers - 1) }

ForbiddenLastBidCalls ==
  UNION { [fn : {"getForbiddenLastBidValue"},
           bids : [1..n -> RulesBidValues],
           handSize : RulesHandSizes,
           biddingOrder : RulesBiddingOrders(n)] : n \in RulesPlayerCounts }

IsBidAllowedCalls ==
  UNION { [fn : {"isBidAllowed"},
           playerIndex : 0..(n - 1),
           value : -1..(handSize + 1),
           bids : [1..n -> RulesBidValues],
           handSize : {handSize},
           biddingOrder : RulesBiddingOrders(n)] :
          n \in RulesPlayerCounts, handSize \in RulesHandSizes }

RulesScoredBids == {1, 2, 3}

RulesScoredTricks == {0, 1, 2}

RulesPreviousTotals == {0, 4, 5, 6}

RulesRoundScores == {1, 11, 12}

RoundScoreCalls ==
  [fn : {"calculateRoundScore"},
   bid : RulesHandSizes,
   tricksTaken : RulesHandSizes]

RoundScoresCalls ==
  UNION { [fn : {"calculateRoundScores"},
           bids : [1..n -> RulesScoredBids],
           tricksTaken : [1..n -> RulesScoredTricks]] : n \in RulesPlayerCounts }

TotalsCalls ==
  UNION { [fn : {"calculateTotals"},
           previousTotals : [1..n -> RulesPreviousTotals],
           roundScores : [1..n -> RulesRoundScores]] : n \in RulesPlayerCounts }

HandSequenceCalls ==
  [fn : {"generateHandSequence"},
   startingHandSize : -1..MaxRulesHand]

RulesSuitStarts == {"clubs", "spades", "diamonds"}

SuitCycleCalls ==
  [fn : {"generateSuitCycle"},
   start : RulesSuitStarts,
   roundCount : 0..(2 * MaxRulesHand)]

BiddingOrderCalls ==
  UNION { [fn : {"getBiddingOrder"},
           dealerIndex : 0..(n - 1),
           numberOfPlayers : {n}] : n \in MIN_PLAYERS..MAX_PLAYERS }

InitRules ==
  /\ config = createDefaultConfig
  /\ rounds = <<>>
  /\ ui = createDefaultUI
  /\ savedGameState = NoValue
  /\ storageAvailable = TRUE
  /\ lastOp = [op |-> "boot", arg |-> 0, changed |-> FALSE]
  /\ quitLength = 0
  /\ rulesResult = <<>>
  /\ \/ rulesCall \in ForbiddenLastBidCalls
     \/ rulesCall \in IsBidAllowedCalls
     \/ rulesCall \in RoundScoreCalls
     \/ rulesCall \in RoundScoresCalls
     \/ rulesCall \in TotalsCalls
     \/ rulesCall \in HandSequenceCalls
     \/ rulesCall \in SuitCycleCalls
     \/ rulesCall \in BiddingOrderCalls

Returns(value) ==
  /\ rulesResult = <<>>
  /\ rulesResult' = <<value>>
  /\ UNCHANGED <<config, rounds, ui, savedGameState, storageAvailable,
                 lastOp, quitLength, rulesCall>>

CallGetForbiddenLastBidValue ==
  /\ rulesCall.fn = "getForbiddenLastBidValue"
  /\ Returns(getForbiddenLastBidValue(rulesCall.bids, rulesCall.handSize,
                                      rulesCall.biddingOrder))

CallIsBidAllowed ==
  /\ rulesCall.fn = "isBidAllowed"
  /\ Returns(isBidAllowed(rulesCall.playerIndex, rulesCall.value, rulesCall.bids,
                          rulesCall.handSize, rulesCall.biddingOrder))

CallCalculateRoundScore ==
  /\ rulesCall.fn = "calculateRoundScore"
  /\ Returns(calculateRoundScore(rulesCall.bid, rulesCall.tricksTaken))

CallCalculateRoundScores ==
  /\ rulesCall.fn = "calculateRoundScores"
  /\ Returns(calculateRoundScores(rulesCall.bids, rulesCall.tricksTaken))

CallCalculateTotals ==
  /\ rulesCall.fn = "calculateTotals"
  /\ Returns(calculateTotals(rulesCall.previousTotals, rulesCall.roundScores))

CallGenerateHandSequence ==
  /\ rulesCall.fn = "generateHandSequence"
  /\ Returns(generateHandSequence(rulesCall.startingHandSize))

CallGenerateSuitCycle ==
  /\ rulesCall.fn = "generateSuitCycle"
  /\ Returns(generateSuitCycle(rulesCall.start, rulesCall.roundCount))

CallGetBiddingOrder ==
  /\ rulesCall.fn = "getBiddingOrder"
  /\ Returns(getBiddingOrder(rulesCall.dealerIndex, rulesCall.numberOfPlayers))

NextRules ==
  \/ CallGetForbiddenLastBidValue
  \/ CallIsBidAllowed
  \/ CallCalculateRoundScore
  \/ CallCalculateRoundScores
  \/ CallCalculateTotals
  \/ CallGenerateHandSequence
  \/ CallGenerateSuitCycle
  \/ CallGetBiddingOrder

SpecRules == InitRules /\ [][NextRules]_vars

----
\* Properties

\* C1: whenever the screen is playing, the bids of the current round do not
\* add up to the round's hand size.
C1_PlayingBidsNeverEqualHandSize ==
  (ui.screen = "playing" /\ currentRoundExists)
    => SumSeq(currentRound.bids) # currentRound.handSize

\* The dealer has bid a non-zero value next to the forbidden one and play began.
C1_Witness ==
  /\ ui.screen = "playing"
  /\ lastOp.op = "begin_playing"
  /\ SumSeq(currentRound.bids) = currentRound.handSize + 1
  /\ At(currentRound.bids, currentRound.dealerIndex) > 0

\* C2: on the bidding screen with bid-turn t below the player count,
\* select_bid(v) is accepted exactly when isBidAllowed holds for the player
\* whose turn it is; accepted, it writes v into that player's bid and moves
\* the bid-turn to t + 1 and nothing else; rejected, it changes nothing.
C2_SelectBidStep ==
  (/\ lastOp'.op = "select_bid"
   /\ ui.screen = "bidding"
   /\ currentRoundExists
   /\ ui.currentBidTurn < config.numberOfPlayers)
  => LET order == getBiddingOrder(currentRound.dealerIndex, config.numberOfPlayers)
         t == ui.currentBidTurn
         player == At(order, t)
         v == lastOp'.arg
         allowed == isBidAllowed(player, v, currentRound.bids, currentRound.handSize, order)
     IN /\ allowed <=> (<<config, rounds, ui>>' # <<config, rounds, ui>>)
        /\ allowed =>
             /\ config' = config
             /\ rounds' = SetAt(rounds, ui.currentRoundIndex,
                                [currentRound EXCEPT !.bids = SetAt(currentRound.bids, player, v)])
             /\ ui' = [ui EXCEPT !.currentBidTurn = t + 1]
        /\ ~allowed => UNCHANGED <<config, rounds, ui>>

C2_SelectBidAcceptedIffAllowed == [][C2_SelectBidStep]_vars

\* The dealer has just been refused the forbidden value, after an earlier
\* bidder was allowed a non-zero bid.
C2_Witness ==
  /\ ui.screen = "bidding"
  /\ lastOp.op = "select_bid"
  /\ ~lastOp.changed
  /\ ui.currentBidTurn = config.numberOfPlayers - 1
  /\ lastOp.arg \in getForbiddenLastBidValue(currentRound.bids, currentRound.handSize,
                        getBiddingOrder(currentRound.dealerIndex, config.numberOfPlayers))
  /\ SumSeq(currentRound.bids) > 0

\* Rounds that have been scored: those before the cursor, and the cursor's
\* round while the summary is shown.
scoredRoundIndices ==
  { r \in 0..(Len(rounds) - 1) :
      r < ui.currentRoundIndex \/ (r = ui.currentRoundIndex /\ ui.screen = "summary") }

\* C3: for every scored round r, totalsAfterRound[r] is the element-wise sum
\* of the previous round's totals (zeros for r = 0) and roundScores[r].
C3_TotalsAreCumulative ==
  \A r \in scoredRoundIndices :
    LET previousTotals == IF r = 0 THEN Fill(config.numberOfPlayers, 0)
                          ELSE At(rounds, r - 1).totalsAfterRound
    IN \A p \in 0..(config.numberOfPlayers - 1) :
         At(At(rounds, r).totalsAfterRound, p)
           = At(previousTotals, p) + At(At(rounds, r).roundScores, p)

\* Round 1 has just been scored by its last trick on top of non-zero totals
\* of round 0.
C3_Witness ==
  /\ ui.screen = "summary"
  /\ ui.currentRoundIndex = 1
  /\ lastOp.op = "record_trick_winner"
  /\ \E p \in 0..(config.numberOfPlayers - 1) :
        /\ At(At(rounds, 0).totalsAfterRound, p) > 0
        /\ At(At(rounds, 1).roundScores, p) > 0

\* C4: from every state whose screen is playing, recording a trick for any
\* player and then undoing gives back exactly the same game state.
C4_RecordThenUndoRestores ==
  (ui.screen = "playing" /\ currentRoundExists)
    => \A w \in 0..(config.numberOfPlayers - 1) :
         undoGameAction(recordTrickWinner(GameState, w)) = GameState

\* Number of entries of a trick history that name player p.
tricksRecordedFor(trickWinners, p) ==
  Cardinality({ i \in 1..Len(trickWinners) : trickWinners[i] = p })

\* C5: a quit on the playing screen at round k keeps rounds 0..k and drops
\* the later ones, scores round k from the tricks recorded so far (a trick
\* not yet played counts for nobody), adds those scores to the previous
\* round's totals and shows the summary of round k.
C5_QuitPlayingStep ==
  (/\ lastOp'.op = "quit_game"
   /\ lastOp'.arg = 1
   /\ ui.screen = "playing"
   /\ currentRoundExists)
  => LET k == ui.currentRoundIndex
         previousTotals == IF k = 0 THEN Fill(config.numberOfPlayers, 0)
                           ELSE At(rounds, k - 1).totalsAfterRound
     IN /\ Len(rounds') = k + 1
        /\ \A r \in 0..(k - 1) : At(rounds', r) = At(rounds, r)
        /\ At(rounds', k).bids = currentRound.bids
        /\ At(rounds', k).tricksTaken = currentRound.tricksTaken
        /\ At(rounds', k).trickWinners = currentRound.trickWinners
        /\ \A p \in 0..(config.numberOfPlayers - 1) :
             /\ At(At(rounds', k).roundScores, p)
                  = calculateRoundScore(At(currentRound.bids, p),
                                        tricksRecordedFor(currentRound.trickWinners, p))
             /\ At(At(rounds', k).totalsAfterRound, p)
                  = At(previousTotals, p) + At(At(rounds', k).roundScores, p)
        /\ ui'.screen = "summary"
        /\ ui'.currentRoundIndex = k
        /\ config' = config

C5_QuitDuringPlayScoresRecordedTricks == [][C5_QuitPlayingStep]_vars

\* A round was quit during play with some but not all tricks recorded: the
\* summary shows a round with an incomplete trick history and a bonus score.
C5_Witness ==
  /\ ui.screen = "summary"
  /\ lastOp.op = "quit_game"
  /\ lastOp.arg = 1
  /\ lastOp.changed
  /\ Len(currentRound.trickWinners) > 0
  /\ Len(currentRound.trickWinners) < currentRound.handSize
  /\ \E p \in 0..(config.numberOfPlayers - 1) :
        At(currentRound.roundScores, p) >= EXACT_BID_BONUS

\* C6, right after a quit: the summary of the last round of the truncated
\* list is shown.
C6_QuitStep ==
  (lastOp'.op = "quit_game" /\ lastOp'.arg = 1)
  => /\ ui'.screen = "summary"
     /\ Len(rounds') <= Max2(1, Len(rounds))
     /\ ui'.currentRoundIndex = Len(rounds') - 1

\* C6, afterwards: the round list stays within the truncated length and
\* next_round has no following round to advance to.
C6_AfterQuit ==
  quitLength > 0
  => /\ Len(rounds) <= quitLength
     /\ moveToNextRound(GameState) = GameState

\* C6, re-entry: after a quit, a step from the summary to the bidding or
\* playing screen is an undo.
C6_ReentryStep ==
  (quitLength > 0 /\ ui.screen = "summary" /\ ui'.screen \in {"bidding", "playing"})
  => lastOp'.op = "undo"

C7_QuitBiddingStep ==
  (/\ lastOp'.op = "quit_game"
   /\ lastOp'.arg = 1
   /\ ui.screen = "bidding"
   /\ currentRoundExists)
  => LET k == ui.currentRoundIndex
         n == config.numberOfPlayers
         scheduled == At(createRounds(config), 0)
     IN /\ config' = config
        /\ ui'.screen = "summary"
        /\ k > 0 => /\ rounds' = Slice(rounds, 0, k)
                    /\ ui'.currentRoundIndex = k - 1
        /\ k = 0 => /\ Len(rounds') = 1
                    /\ ui'.currentRoundIndex = 0
                    /\ At(rounds', 0).roundIndex = 0
                    /\ At(rounds', 0).handSize = scheduled.handSize
                    /\ At(rounds', 0).suit = scheduled.suit
                    /\ At(rounds', 0).dealerIndex = scheduled.dealerIndex
                    /\ At(rounds', 0).bids = Fill(n, 0)
                    /\ At(rounds', 0).tricksTaken = Fill(n, 0)
                    /\ At(rounds', 0).trickWinners = <<>>
                    /\ At(rounds', 0).roundScores = Fill(n, 0)
                    /\ At(rounds', 0).totalsAfterRound = Fill(n, 0)

C7_QuitDuringBiddingDropsRound == [][C7_QuitBiddingStep]_vars

\* A three-round game was quit while round 0 was being bid: one round with
\* zero bids and zero scores is left (a quit during play with zero bids
\* would have scored the bonus).
C7_Witness ==
  /\ ui.screen = "summary"
  /\ lastOp.op = "quit_game"
  /\ lastOp.arg = 1
  /\ config.startingHandSize = 2
  /\ Len(rounds) = 1
  /\ At(rounds, 0).bids = Fill(config.numberOfPlayers, 0)
  /\ At(rounds, 0).roundScores = Fill(config.numberOfPlayers, 0)

\* C8: record_trick_winner called while the screen is not playing changes
\* nothing.
C8_RecordOutsidePlayIsNoOp ==
  ui.screen # "playing"
    => \A w \in 0..(config.numberOfPlayers - 1) :
         recordTrickWinner(GameState, w) = GameState

\* C9: select_bid called while the screen is not bidding changes nothing.
C9_SelectBidOutsideBiddingIsNoOp ==
  (ui.screen # "bidding" /\ currentRoundExists)
    => \A v \in 0..currentRound.handSize :
         selectBidForCurrentPlayer(GameState, v) = GameState

\* C10: start_game on a configuration whose player count times starting
\* hand size exceeds the deck leaves the game state unchanged.
C10_StartGameStep ==
  (/\ lastOp'.op = "start_game"
   /\ ~validateDeckConstraint(config.numberOfPlayers, config.startingHandSize))
  => UNCHANGED <<config, rounds, ui>>

isBlankName(name) == \A k \in 1..Len(name) : name[k] = " "

\* Some player of the (clamped) player count has no name or a blank one
someNameBlank(cfg) ==
  \E i \in 1..clamp(cfg.numberOfPlayers, MIN_PLAYERS, MAX_PLAYERS) :
     i > Len(cfg.playerNames) \/ isBlankName(cfg.playerNames[i])

\* C11, the step: a start_game on a configuration with a blank name changes
\* nothing.
C11_StartGameStep ==
  (lastOp'.op = "start_game" /\ someNameBlank(config))
    => (UNCHANGED <<config, rounds, ui>> /\ ~lastOp'.changed)

\* C11, the default configuration: start_game returns it unchanged.
C11_DefaultConfigRefused ==
  startGame(createInitialGameState(createDefaultConfig))
    = createInitialGameState(createDefaultConfig)

\* C11: start_game changes nothing when the name of at least one player is
\* missing or blank (empty once surrounding whitespace is removed); the
\* default configuration, whose names are all empty, is refused.
C11_StartGameRefusesBlankName ==
  [][C11_StartGameStep]_vars /\ []C11_DefaultConfigRefused

\* C11 witness: start_game was refused on a configuration in which one name
\* holds only whitespace and another is provided.
C11_Witness ==
  /\ lastOp.op = "start_game"
  /\ ~lastOp.changed
  /\ ui.screen = "config"
  /\ rounds = <<>>
  /\ config.numberOfPlayers = 2
  /\ config.playerNames = << <<"T">>, <<" ">> >>

\* C12: a start_game that succeeds replaces the state by the sanitized
\* configuration, the round schedule built from it, and the cursor bidding,
\* round 0, bid-turn 0, trick 1, leader = (dealer of round 0 + 1) mod players.
C12_StartGameStep ==
  (lastOp'.op = "start_game" /\ lastOp'.changed)
    => /\ config' = sanitizeConfig(config)
       /\ rounds' = createRounds(sanitizeConfig(config))
       /\ rounds' # <<>>
       /\ ui' = [screen |-> "bidding",
                 currentRoundIndex |-> 0,
                 currentBidTurn |-> 0,
                 currentTrick |-> 1,
                 currentLeaderIndex |->
                   (rounds'[1].dealerIndex + 1) % config'.numberOfPlayers]

C12_StartGameReplacesState == [][C12_StartGameStep]_vars

\* C12 witness: a game of 8 players, hand 6 and first dealer 7 was started;
\* the schedule has 11 rounds and the first leader wraps around to player 0.
C12_Witness ==
  /\ lastOp.op = "start_game"
  /\ lastOp.changed
  /\ ui.screen = "bidding"
  /\ config.numberOfPlayers = 8
  /\ config.firstDealerIndex = 7
  /\ config.startingHandSize = 6
  /\ ui.currentLeaderIndex = 0
  /\ Len(rounds) = 11

\* Sum of the bids of every bidder of the order except the last one
RECURSIVE otherBiddersTotal(_, _, _)
otherBiddersTotal(bids, biddingOrder, upTo) ==
  IF upTo <= 0 THEN 0
  ELSE bids[biddingOrder[upTo] + 1] + otherBiddersTotal(bids, biddingOrder, upTo - 1)

\* C13: getForbiddenLastBidValue returns hand size minus the bids of every
\* bidder but the last when that difference lies in 0..hand size, and no
\* value when the difference is negative, exceeds the hand size, or the
\* bidding order is empty.
C13_ForbiddenLastBidValue ==
  (rulesCall.fn = "getForbiddenLastBidValue" /\ rulesResult # <<>>)
    => LET order == rulesCall.biddingOrder
           difference == rulesCall.handSize
                           - otherBiddersTotal(rulesCall.bids, order, Len(order) - 1)
       IN rulesResult[1] =
            IF order # <<>> /\ difference >= 0 /\ difference <= rulesCall.handSize
            THEN {difference}
            ELSE {}

\* C13 witness: bids [4,1,0,0], hand size 6 and bidding order [1,2,3,0]
\* returned the forbidden value 5.
C13_Witness ==
  /\ rulesCall = [fn |-> "getForbiddenLastBidValue",
                  bids |-> <<4, 1, 0, 0>>,
                  handSize |-> 6,
                  biddingOrder |-> <<1, 2, 3, 0>>]
  /\ rulesResult = <<{5}>>

\* C14: isBidAllowed is true exactly when the value lies in 0..hand size
\* and, for the last bidder of the order only, differs from the forbidden
\* value when there is one; any other bidder may bid the forbidden value.
C14_IsBidAllowed ==
  (rulesCall.fn = "isBidAllowed" /\ rulesResult # <<>>)
    => LET order == rulesCall.biddingOrder
           isLast == order # <<>> /\ rulesCall.playerIndex = order[Len(order)]
           difference == rulesCall.handSize
                           - otherBiddersTotal(rulesCall.bids, order, Len(order) - 1)
           forbidden == isLast /\ difference >= 0 /\ difference <= rulesCall.handSize
                               /\ rulesCall.value = difference
       IN rulesResult[1] =
            (rulesCall.value >= 0 /\ rulesCall.value <= rulesCall.handSize /\ ~forbidden)

\* C14 witness: with bids [4,1,0,0], hand size 6 and bidding order
\* [1,2,3,0], the last bidder (player 0) was refused the bid 5.
C14_Witness ==
  /\ rulesCall = [fn |-> "isBidAllowed",
                  playerIndex |-> 0,
                  value |-> 5,
                  bids |-> <<4, 1, 0, 0>>,
                  handSize |-> 6,
                  biddingOrder |-> <<1, 2, 3, 0>>]
  /\ rulesResult = <<FALSE>>

\* C15: calculateRoundScore is the tricks taken plus 10 when the bid was
\* exact and the tricks taken otherwise; calculateRoundScores applies it
\* player by player; calculateTotals adds round scores to previous totals
\* player by player.
C15_Scoring ==
  rulesResult # <<>> =>
    /\ rulesCall.fn = "calculateRoundScore" =>
          /\ rulesCall.bid = rulesCall.tricksTaken
                => rulesResult[1] = rulesCall.tricksTaken + 10
          /\ rulesCall.bid # rulesCall.tricksTaken
                => rulesResult[1] = rulesCall.tricksTaken
    /\ rulesCall.fn = "calculateRoundScores" =>
          /\ Len(rulesResult[1]) = Len(rulesCall.bids)
          /\ \A p \in 1..Len(rulesCall.bids) :
                rulesResult[1][p] =
                  rulesCall.tricksTaken[p]
                    + (IF rulesCall.bids[p] = rulesCall.tricksTaken[p] THEN 10 ELSE 0)
    /\ rulesCall.fn = "calculateTotals" =>
          /\ Len(rulesResult[1]) = Len(rulesCall.roundScores)
          /\ \A p \in 1..Len(rulesCall.roundScores) :
                rulesResult[1][p] = rulesCall.previousTotals[p] + rulesCall.roundScores[p]

\* C15 witness: bids [1,3,2] and tricks [1,1,2] scored [11,1,12].
C15_Witness ==
  /\ rulesCall = [fn |-> "calculateRoundScores",
                  bids |-> <<1, 3, 2>>,
                  tricksTaken |-> <<1, 1, 2>>]
  /\ rulesResult = << <<11, 1, 12>> >>

\* C16, the states of the trace: round 0 has hand size 7 and dealer 0; play
\* of round 0 ends with the seventh trick; with all bids 0 and player 1
\* winning seven tricks, round scores and totals are 10, 7, 10, 10.
C16_TraceStates ==
  rounds # <<>> =>
    /\ rounds[1].handSize = 7
    /\ rounds[1].dealerIndex = 0
    /\ ui.screen = "playing" => Len(rounds[1].trickWinners) < 7
    /\ ui.screen = "summary" => Len(rounds[1].trickWinners) = 7
    /\ (/\ rounds[1].bids = <<0, 0, 0, 0>>
        /\ rounds[1].trickWinners = <<1, 1, 1, 1, 1, 1, 1>>)
       => /\ ui.screen = "summary"
          /\ ui.currentRoundIndex = 0
          /\ rounds[1].roundScores = <<10, 7, 10, 10>>
          /\ rounds[1].totalsAfterRound = <<10, 7, 10, 10>>

\* C16, the bids of the trace: the bid at bid-turn t is written for player
\* [1,2,3,0][t]; after bids of 0 by players 1, 2 and 3, player 0 is refused
\* the bid 7 and accepted with the bid 0.
C16_TraceBidStep ==
  (lastOp'.op = "select_bid" /\ ui.currentBidTurn < 4)
    => LET bidder == <<1, 2, 3, 0>>[ui.currentBidTurn + 1]
           value == lastOp'.arg
           zerosSoFar == rounds[1].bids[2] = 0 /\ rounds[1].bids[3] = 0
                         /\ rounds[1].bids[4] = 0
       IN /\ lastOp'.changed
             => /\ rounds'[1].bids = [rounds[1].bids EXCEPT ![bidder + 1] = value]
                /\ ui'.currentBidTurn = ui.currentBidTurn + 1
          /\ (ui.currentBidTurn = 3 /\ zerosSoFar /\ value = 7)
             => (~lastOp'.changed /\ UNCHANGED <<config, rounds, ui>>)
          /\ (ui.currentBidTurn < 3 \/ (zerosSoFar /\ value = 0))
             => lastOp'.changed

\* C16: the end-to-end trace of a game of 4 named players, starting hand 7
\* and first dealer 0: bidding order [1,2,3,0], bids of 0 accepted, the
\* bid 7 refused to player 0 as last bidder, and after seven tricks won by
\* player 1 the summary shows 7 for player 1 and 10 for the others.
C16_EndToEndTrace == []C16_TraceStates /\ [][C16_TraceBidStep]_vars

\* C16 witness: the summary of round 0 after four bids of 0 and seven
\* tricks won by player 1.
C16_Witness ==
  /\ lastOp = [op |-> "record_trick_winner", arg |-> 1, changed |-> TRUE]
  /\ ui.screen = "summary"
  /\ rounds # <<>>
  /\ rounds[1].bids = <<0, 0, 0, 0>>
  /\ rounds[1].tricksTaken = <<0, 7, 0, 0>>
  /\ rounds[1].totalsAfterRound = <<10, 7, 10, 10>>

\* C17: whenever the screen is playing, the trick leader is the winner of
\* the latest trick recorded in the current round, or (dealer + 1) mod
\* players when no trick of the round has been recorded.
C17_LeaderFollowsLastWinner ==
  (ui.screen = "playing" /\ currentRoundExists)
    => LET winners == currentRound.trickWinners
       IN ui.currentLeaderIndex =
            IF winners # <<>> THEN winners[Len(winners)]
            ELSE (currentRound.dealerIndex + 1) % config.numberOfPlayers

\* C17 witness: play resumed by an undo with a trick still recorded whose
\* winner is not the first leader.
C17_Witness ==
  /\ lastOp.op = "undo"
  /\ lastOp.changed
  /\ ui.screen = "playing"
  /\ currentRoundExists
  /\ currentRound.trickWinners # <<>>
  /\ ui.currentLeaderIndex = currentRound.trickWinners[Len(currentRound.trickWinners)]
  /\ ui.currentLeaderIndex # (currentRound.dealerIndex + 1) % config.numberOfPlayers

\* Number of entries of a trick-winner history that name a player
occurrencesOf(playerIndex, winners) ==
  Cardinality({k \in 1..Len(winners) : winners[k] = playerIndex})

\* C18: in every round, each player's tricksTaken is the number of times the
\* player occurs in the round's trick-winner history; so the tricks taken
\* add up to the number of tricks recorded, which never exceeds the hand size.
C18_TricksTakenMatchHistory ==
  \A r \in 1..Len(rounds) :
     /\ Len(rounds[r].tricksTaken) = config.numberOfPlayers
     /\ \A p \in 1..config.numberOfPlayers :
           rounds[r].tricksTaken[p] = occurrencesOf(p - 1, rounds[r].trickWinners)
     /\ \A k \in 1..Len(rounds[r].trickWinners) :
           rounds[r].trickWinners[k] \in 0..(config.numberOfPlayers - 1)
     /\ SumSeq(rounds[r].tricksTaken) = Len(rounds[r].trickWinners)
     /\ Len(rounds[r].trickWinners) <= rounds[r].handSize

\* C18 witness: play resumed by an undo from the summary of a round of hand
\* size 2 or more, with every trick but the last still recorded.
C18_Witness ==
  /\ lastOp.op = "undo"
  /\ lastOp.changed
  /\ ui.screen = "playing"
  /\ currentRoundExists
  /\ currentRound.handSize >= 2
  /\ ui.currentTrick = currentRound.handSize
  /\ Len(currentRound.trickWinners) = currentRound.handSize - 1
  /\ SumSeq(currentRound.tricksTaken) = currentRound.handSize - 1

\* C19, the step: an undo on the playing screen with no trick recorded in
\* the current round moves to bidding at bid-turn players - 1, trick 1,
\* leader (dealer + 1) mod players, and keeps the round index, every round
\* (bids included) and the configuration.
C19_UndoStep ==
  (/\ lastOp'.op = "undo"
   /\ ui.screen = "playing"
   /\ currentRoundExists
   /\ currentRound.trickWinners = <<>>)
  => /\ ui' = [screen |-> "bidding",
               currentRoundIndex |-> ui.currentRoundIndex,
               currentBidTurn |-> config.numberOfPlayers - 1,
               currentTrick |-> 1,
               currentLeaderIndex |->
                 (currentRound.dealerIndex + 1) % config.numberOfPlayers]
     /\ UNCHANGED <<config, rounds>>

\* C19, the way back: in the bidding state an undo has left at bid-turn
\* players - 1, it is the dealer's turn, a legal bid exists, and every legal
\* bid is written for the dealer and followed by the move to playing.
C19_DealerRebids ==
  (/\ lastOp.op = "undo"
   /\ lastOp.changed
   /\ ui.screen = "bidding"
   /\ currentRoundExists
   /\ ui.currentBidTurn = config.numberOfPlayers - 1)
  => LET dealer == currentRound.dealerIndex
         order == getBiddingOrder(dealer, config.numberOfPlayers)
         legal == { v \in 0..currentRound.handSize :
                      isBidAllowed(dealer, v, currentRound.bids,
                                   currentRound.handSize, order) }
     IN /\ legal # {}
        /\ \A v \in legal :
              LET rebid == selectBidForCurrentPlayer(GameState, v)
                  resumed == beginPlaying(rebid)
              IN /\ rebid.rounds[ui.currentRoundIndex + 1].bids
                      = [currentRound.bids EXCEPT ![dealer + 1] = v]
                 /\ rebid.ui.currentBidTurn = config.numberOfPlayers
                 /\ resumed.ui.screen = "playing"
                 /\ resumed.ui.currentTrick = 1

\* C19: undo on the playing screen before any trick of the round is
\* recorded returns to the dealer's bid-turn with every bid kept, and a
\* legal dealer bid entered again leads back to playing.
C19_UndoIntoBidding == [][C19_UndoStep]_vars /\ []C19_DealerRebids

\* C19 witness: an undo has returned from play to the dealer's bid-turn and
\* the dealer's retracted bid (not 0) is still recorded.
C19_Witness ==
  /\ lastOp.op = "undo"
  /\ lastOp.changed
  /\ ui.screen = "bidding"
  /\ currentRoundExists
  /\ ui.currentBidTurn = config.numberOfPlayers - 1
  /\ ui.currentTrick = 1
  /\ currentRound.trickWinners = <<>>
  /\ currentRound.bids[currentRound.dealerIndex + 1] > 0
  /\ ui.currentRoundIndex = 1

\* C20: an undo on the bidding screen with bid-turn above 0 lowers the
\* bid-turn by one and changes nothing else (every bid, the retracted one
\* included, every round, the configuration and the rest of the cursor stay);
\* with bid-turn 0 it changes nothing.
C20_UndoBiddingStep ==
  (lastOp'.op = "undo" /\ ui.screen = "bidding")
    => /\ UNCHANGED <<config, rounds>>
       /\ ui.currentBidTurn > 0
            => (ui' = [ui EXCEPT !.currentBidTurn = ui.currentBidTurn - 1]
                /\ lastOp'.changed)
       /\ ui.currentBidTurn = 0 => (UNCHANGED ui /\ ~lastOp'.changed)
       /\ ui.currentBidTurn >= 0

C20_UndoBiddingOnlyMovesBidTurn == [][C20_UndoBiddingStep]_vars

\* C20 witness: among three players an undo has returned to the second
\* bidder's turn, whose retracted bid (not 0) is still recorded.
C20_Witness ==
  /\ lastOp.op = "undo"
  /\ lastOp.changed
  /\ ui.screen = "bidding"
  /\ currentRoundExists
  /\ config.numberOfPlayers = 3
  /\ ui.currentBidTurn = 1
  /\ currentRound.bids[((currentRound.dealerIndex + 2) % 3) + 1] > 0

\* C21: an undo on the summary screen changes nothing when the current
\* round has no recorded trick; otherwise it re-enters playing at trick
\* number = hand size, removes the last recorded trick from its winner's
\* count and from the history, makes the previous trick's winner (or the
\* first leader) lead, and sets the round's scores and totals to zero.
C21_UndoSummaryStep ==
  (lastOp'.op = "undo" /\ ui.screen = "summary" /\ currentRoundExists)
    => LET k == ui.currentRoundIndex + 1
           winners == currentRound.trickWinners
           undone == winners[Len(winners)]
           zeros == [p \in 1..config.numberOfPlayers |-> 0]
       IN IF winners = <<>>
          THEN UNCHANGED <<config, rounds, ui>>
          ELSE /\ config' = config
               /\ ui' = [ui EXCEPT
                           !.screen = "playing",
                           !.currentTrick = currentRound.handSize,
                           !.currentLeaderIndex =
                              IF Len(winners) > 1 THEN winners[Len(winners) - 1]
                              ELSE (currentRound.dealerIndex + 1) % config.numberOfPlayers]
               /\ rounds' = [rounds EXCEPT ![k] =
                               [currentRound EXCEPT
                                  !.tricksTaken[undone + 1] = @ - 1,
                                  !.trickWinners = SubSeq(winners, 1, Len(winners) - 1),
                                  !.roundScores = zeros,
                                  !.totalsAfterRound = zeros]]

C21_UndoFromSummary == [][C21_UndoSummaryStep]_vars

\* C22, a following round exists: next_round on the summary of round k
\* moves the cursor to bidding at round k + 1, bid-turn 0, trick 1, leader
\* (dealer of round k + 1, plus 1) mod players, and keeps rounds and
\* configuration.
C22_NextRoundStep ==
  (/\ lastOp'.op = "next_round"
   /\ ui.screen = "summary"
   /\ ui.currentRoundIndex + 1 < Len(rounds))
  => /\ ui' = [screen |-> "bidding",
               currentRoundIndex |-> ui.currentRoundIndex + 1,
               currentBidTurn |-> 0,
               currentTrick |-> 1,
               currentLeaderIndex |->
                 (rounds[ui.currentRoundIndex + 2].dealerIndex + 1)
                    % config.numberOfPlayers]
     /\ UNCHANGED <<config, rounds>>

\* C22, no following round: next_round on the summary of the last round of
\* the list returns the state unchanged.
C22_NoFollowingRound ==
  (ui.screen = "summary" /\ ui.currentRoundIndex + 1 >= Len(rounds))
    => moveToNextRound(GameState) = GameState

\* C22: next_round on the summary screen advances the cursor to the
\* following round when there is one and changes nothing otherwise.
C22_NextRound == [][C22_NextRoundStep]_vars /\ []C22_NoFollowingRound

\* C22 witness: next_round has moved from the summary of round 0, reached
\* with the latest trick won by the player who does not lead round 1, to
\* the bidding of round 1.
C22_Witness ==
  /\ lastOp.op = "next_round"
  /\ lastOp.changed
  /\ ui.screen = "bidding"
  /\ ui.currentRoundIndex = 1
  /\ ui.currentBidTurn = 0
  /\ ui.currentTrick = 1
  /\ Len(rounds) = 3
  /\ rounds[1].trickWinners # <<>>
  /\ rounds[1].trickWinners[Len(rounds[1].trickWinners)] # ui.currentLeaderIndex

\* C23: new_game empties the round list, resets the cursor to screen
\* config, round 0, bid-turn 0, trick 1, leader 0, and leaves the sanitized
\* configuration of the finished game (players, hand size, suit origin,
\* names, first dealer) as it was.
C23_NewGameStep ==
  lastOp'.op = "new_game"
    => /\ rounds' = <<>>
       /\ ui' = [screen |-> "config", currentRoundIndex |-> 0, currentBidTurn |-> 0,
                 currentTrick |-> 1, currentLeaderIndex |-> 0]
       /\ config' = sanitizeConfig(config)
       /\ config' = config

C23_NewGameKeepsConfig == [][C23_NewGameStep]_vars

\* C23 witness: new_game has returned to the configuration screen with the
\* 3-player, dealer-2, spades configuration of the finished game.
C23_Witness ==
  /\ lastOp.op = "new_game"
  /\ lastOp.changed
  /\ ui.screen = "config"
  /\ rounds = <<>>
  /\ config.numberOfPlayers = 3
  /\ config.firstDealerIndex = 2
  /\ config.suitStart = "spades"
  /\ config.playerNames = << <<"T">>, <<"T">>, <<"T">> >>

\* C24: for n >= 1 generateHandSequence(n) is n, n-1, ..., 1, 2, ..., n,
\* of length 2n - 1; for n <= 0 it is empty.
C24_HandSequence ==
  (rulesCall.fn = "generateHandSequence" /\ rulesResult # <<>>)
    => LET n == rulesCall.startingHandSize
           sequence == rulesResult[1]
       IN IF n <= 0 THEN sequence = <<>>
          ELSE /\ Len(sequence) = 2 * n - 1
               /\ \A i \in 1..n : sequence[i] = n - (i - 1)
               /\ \A i \in (n + 1)..(2 * n - 1) : sequence[i] = i - n + 1

\* C24 witness: generateHandSequence(4) returned 4,3,2,1,2,3,4.
C24_Witness ==
  /\ rulesCall = [fn |-> "generateHandSequence", startingHandSize |-> 4]
  /\ rulesResult = << <<4, 3, 2, 1, 2, 3, 4>> >>

\* A sequence that strictly decreases up to position turn and strictly
\* increases after it
turnsAt(sequence, turn) ==
  /\ \A i \in 1..(Len(sequence) - 1) :
        IF i < turn THEN sequence[i] > sequence[i + 1]
        ELSE sequence[i] < sequence[i + 1]

\* C25 as stated: for n >= 1 the sequence starts and ends at 1, strictly
\* decreases and then strictly increases, and its largest element is n.
C25_StartsAndEndsAtOne ==
  (/\ rulesCall.fn = "generateHandSequence"
   /\ rulesResult # <<>>
   /\ rulesCall.startingHandSize >= 1)
  => LET sequence == rulesResult[1]
     IN /\ sequence # <<>>
        /\ sequence[1] = 1
        /\ sequence[Len(sequence)] = 1
        /\ \E turn \in 1..Len(sequence) : turnsAt(sequence, turn)
        /\ \A i \in 1..Len(sequence) : sequence[i] <= rulesCall.startingHandSize
        /\ \E i \in 1..Len(sequence) : sequence[i] = rulesCall.startingHandSize

\* C25 amended: for n >= 1 the sequence starts and ends at n, its peak,
\* strictly decreases to its only 1 at position n and strictly increases
\* from there.
C25_StartsAndEndsAtPeak ==
  (/\ rulesCall.fn = "generateHandSequence"
   /\ rulesResult # <<>>
   /\ rulesCall.startingHandSize >= 1)
  => LET n == rulesCall.startingHandSize
         sequence == rulesResult[1]
     IN /\ sequence # <<>>
        /\ sequence[1] = n
        /\ sequence[Len(sequence)] = n
        /\ n <= Len(sequence)
        /\ turnsAt(sequence, n)
        /\ sequence[n] = 1
        /\ \A i \in 1..Len(sequence) : sequence[i] <= n

\* C25 witness: generateHandSequence(3) returned 3,2,1,2,3.
C25_Witness ==
  /\ rulesCall = [fn |-> "generateHandSequence", startingHandSize |-> 3]
  /\ rulesResult = << <<3, 2, 1, 2, 3>> >>

\* C26: for the clubs and spades origins generateSuitCycle(origin, count)
\* has length count, its element i (from 0) is element i mod 5 of C, D, H,
\* S, NT (clubs) or S, H, D, C, NT (spades), so every fifth round is
\* no-trump; it is empty for count 0 and a prefix of the result for count + 1.
C26_SuitCycle ==
  (/\ rulesCall.fn = "generateSuitCycle"
   /\ rulesResult # <<>>
   /\ rulesCall.start \in {"clubs", "spades"})
  => LET suits == rulesResult[1]
         base == IF rulesCall.start = "clubs"
                 THEN <<"C", "D", "H", "S", "NT">>
                 ELSE <<"S", "H", "D", "C", "NT">>
         longer == generateSuitCycle(rulesCall.start, rulesCall.roundCount + 1)
     IN /\ Len(suits) = rulesCall.roundCount
        /\ \A i \in 0..(rulesCall.roundCount - 1) :
              /\ suits[i + 1] = base[(i % 5) + 1]
              /\ (suits[i + 1] = "NT") = (i % 5 = 4)
              /\ suits[i + 1] = longer[i + 1]
        /\ Len(longer) = rulesCall.roundCount + 1
        /\ rulesCall.roundCount = 0 => suits = <<>>

\* C26 witness: generateSuitCycle(spades, 6) returned S, H, D, C, NT, S.
C26_Witness ==
  /\ rulesCall = [fn |-> "generateSuitCycle", start |-> "spades", roundCount |-> 6]
  /\ rulesResult = << <<"S", "H", "D", "C", "NT", "S">> >>

\* C27: generateSuitCycle with the diamonds origin follows the order D, S,
\* H, C, NT; for count 7 it returns D, S, H, C, NT, D, S.
C27_DiamondsCycle ==
  (/\ rulesCall.fn = "generateSuitCycle"
   /\ rulesResult # <<>>
   /\ rulesCall.start = "diamonds")
  => /\ Len(rulesResult[1]) = rulesCall.roundCount
     /\ \A i \in 0..(rulesCall.roundCount - 1) :
           rulesResult[1][i + 1] = <<"D", "S", "H", "C", "NT">>[(i % 5) + 1]

\* C28: sanitizeConfig is idempotent: sanitizing the sanitized form of any
\* configuration returns it unchanged.
C28_SanitizeIdempotent ==
  LET once == sanitizeConfig(config)
  IN sanitizeConfig(once) = once

\* C28 witness: a configuration every field of which sanitizing changes
\* (9 players, hand 27, dealer 8, origin hearts, padded names).
C28_Witness ==
  /\ ui.screen = "config"
  /\ config.numberOfPlayers = 9
  /\ config.startingHandSize = 27
  /\ config.firstDealerIndex = 8
  /\ config.suitStart = "hearts"
  /\ config.playerNames = Fill(9, <<" ", "T", " ">>)
  /\ sanitizeConfig(config) =
       [numberOfPlayers |-> 8, startingHandSize |-> 6, suitStart |-> "clubs",
        playerNames |-> Fill(8, <<"T">>), firstDealerIndex |-> 7]

\* C29: the sanitized form of any configuration has 2..8 players, a
\* starting hand in 1..floor(52 / players) so that players x hand <= 52,
\* exactly one name per player (the given names in order, cut or padded
\* with empty names), and a first dealer in 0..players - 1.
C29_SanitizedRanges ==
  LET c == sanitizeConfig(config)
      n == c.numberOfPlayers
  IN /\ n \in 2..8
     /\ c.startingHandSize \in 1..(52 \div n)
     /\ n * c.startingHandSize <= 52
     /\ validateDeckConstraint(n, c.startingHandSize)
     /\ Len(c.playerNames) = n
     /\ \A i \in 1..n :
           IF i <= Len(config.playerNames)
           THEN /\ isBlankName(config.playerNames[i]) => c.playerNames[i] = <<>>
                /\ ~isBlankName(config.playerNames[i]) =>
                      /\ c.playerNames[i] # <<>>
                      /\ c.playerNames[i][1] # " "
                      /\ c.playerNames[i][Len(c.playerNames[i])] # " "
           ELSE c.playerNames[i] = <<>>
     /\ c.firstDealerIndex \in 0..(n - 1)

\* C29 witness: a configuration below every range (1 player, hand 0, dealer
\* -1, no names), which sanitizing turns into 2 unnamed players, hand 1,
\* dealer 0.
C29_Witness ==
  /\ ui.screen = "config"
  /\ config.numberOfPlayers = 1
  /\ config.startingHandSize = 0
  /\ config.firstDealerIndex = -1
  /\ config.playerNames = <<>>
  /\ sanitizeConfig(config).numberOfPlayers = 2
  /\ sanitizeConfig(config).startingHandSize = 1
  /\ sanitizeConfig(config).firstDealerIndex = 0
  /\ sanitizeConfig(config).playerNames = << <<>>, <<>> >>

\* C30: the rounds built for a sanitized configuration with starting hand
\* h, n players and first dealer d are exactly 2h - 1 rounds; round i (from
\* 0) has roundIndex i, the hand size at position i of h, ..., 1, ..., h, the
\* suit at position i of the suit cycle of the origin, dealer (d + i) mod n,
\* an empty trick history, and bids, tricks taken, round scores and totals
\* that are n zeros.
C30_BuiltRounds ==
  (lastOp.op = "start_game" /\ lastOp.changed)
    => LET h == config.startingHandSize
           n == config.numberOfPlayers
           zeros == [p \in 1..n |-> 0]
           suits == generateSuitCycle(config.suitStart, 2 * h - 1)
       IN /\ Len(rounds) = 2 * h - 1
          /\ \A i \in 0..(2 * h - 2) :
                rounds[i + 1] =
                  [roundIndex |-> i,
                   handSize |-> IF i < h THEN h - i ELSE i - h + 2,
                   suit |-> suits[i + 1],
                   dealerIndex |-> (config.firstDealerIndex + i) % n,
                   bids |-> zeros,
                   tricksTaken |-> zeros,
                   trickWinners |-> <<>>,
                   roundScores |-> zeros,
                   totalsAfterRound |-> zeros]

\* C30 witness: a game of 3 players, starting hand 17 and first dealer 1
\* was started; 33 rounds were built, the middle one of hand 1 and the last
\* one of hand 17 dealt by player 0.
C30_Witness ==
  /\ lastOp.op = "start_game"
  /\ lastOp.changed
  /\ config.numberOfPlayers = 3
  /\ config.startingHandSize = 17
  /\ config.firstDealerIndex = 1
  /\ Len(rounds) = 33
  /\ rounds[17].handSize = 1
  /\ rounds[33].handSize = 17
  /\ rounds[33].dealerIndex = 0

\* C31: for 2 to 8 players and every dealer seat, getBiddingOrder returns
\* each seat exactly once, n entries in all, starting with the seat after
\* the dealer (the first trick leader) and ending with the dealer; and with
\* such an order isBidAllowed refuses a bid within 0..hand size to the
\* dealer only.
C31_DealerBidsLast ==
  rulesResult # <<>> =>
    /\ rulesCall.fn = "getBiddingOrder" =>
          LET n == rulesCall.numberOfPlayers
              order == rulesResult[1]
          IN /\ Len(order) = n
             /\ \A seat \in 0..(n - 1) :
                   Cardinality({k \in 1..Len(order) : order[k] = seat}) = 1
             /\ order[1] = (rulesCall.dealerIndex + 1) % n
             /\ order[1] = getFirstLeaderIndex(rulesCall.dealerIndex, n)
             /\ order[n] = rulesCall.dealerIndex
    /\ rulesCall.fn = "isBidAllowed" =>
          \A dealerIndex \in 0..(Len(rulesCall.bids) - 1) :
            (/\ rulesCall.biddingOrder
                  = getBiddingOrder(dealerIndex, Len(rulesCall.bids))
             /\ rulesCall.value >= 0
             /\ rulesCall.value <= rulesCall.handSize
             /\ rulesResult[1] = FALSE)
              => rulesCall.playerIndex = dealerIndex

\* C31 witness: with 8 players and dealer 7 the order returned is
\* 0,1,...,7: the wrap-around seat 0 bids first and the dealer last.
C31_Witness ==
  /\ rulesCall = [fn |-> "getBiddingOrder", dealerIndex |-> 7, numberOfPlayers |-> 8]
  /\ rulesResult = << <<0, 1, 2, 3, 4, 5, 6, 7>> >>

\* The state a handler call produces, by the name and argument recorded
\* for the call.
transitionOf(s, saved, op, arg) ==
  CASE op = "start_game" -> startGame(s)
    [] op = "resume" -> resumeSavedGame(s, saved)
    [] op = "select_bid" -> selectBidForCurrentPlayer(s, arg)
    [] op = "begin_playing" -> beginPlaying(s)
    [] op = "record_trick_winner" -> recordTrickWinner(s, arg)
    [] op = "undo" -> undoGameAction(s)
    [] op = "next_round" -> moveToNextRound(s)
    [] op = "quit_game" -> (IF arg = 1 THEN quitGame(s) ELSE s)
    [] op = "new_game" -> newGame(s)
    [] OTHER -> s

\* C32, one step: a transition whose snapshot write fails leaves exactly the
\* state its handler produced, and the in-memory copy of the snapshot as it
\* was.
C32_FailedWriteStep ==
  ~storageAvailable =>
    /\ [config |-> config', rounds |-> rounds', ui |-> ui']
          = transitionOf(GameState, savedGameState, lastOp'.op, lastOp'.arg)
    /\ savedGameState' = savedGameState
    /\ storageAvailable' = storageAvailable

\* C32, after failed writes: the control that carries the game on from the
\* screen still acts: a bid can be entered, play begun, a trick recorded,
\* the next round or a new game opened.
C32_NothingBlocked ==
  (~storageAvailable /\ rounds # <<>> /\ currentRoundExists) =>
    /\ (ui.screen = "bidding" /\ ui.currentBidTurn < config.numberOfPlayers)
          => ENABLED SelectBid
    /\ (ui.screen = "bidding" /\ ui.currentBidTurn = config.numberOfPlayers)
          => ENABLED BeginPlaying
    /\ ui.screen = "playing" => ENABLED RecordTrickWinner
    /\ (ui.screen = "summary" /\ isFinalRound) => ENABLED NewGame
    /\ (ui.screen = "summary" /\ ~isFinalRound) => ENABLED NextScheduledRound

C33_SnapshotIsCurrentState ==
  rounds # <<>> => savedGameState = Some(GameState)

\* C33, one reload: the snapshot written before the reload, read back
\* through readSavedGameState at boot, is unchanged: configuration, round
\* list with all arrays and trick history, and cursor.
C33_ReloadStep ==
  (lastOp'.op = "reload" /\ savedGameState # NoValue)
    => savedGameState' = savedGameState

\* C33: saving a state the game produced and loading it back changes
\* nothing; sanitizing, trick-history filtering and cursor clamping leave
\* it as it was.
C33_SnapshotRoundTrip ==
  [][C33_ReloadStep]_vars /\ []C33_SnapshotIsCurrentState

\* C33 witness: the page was reloaded during play, and the snapshot read
\* back holds a trick won by seat 0 and the cursor on the playing screen.
C33_Witness ==
  /\ lastOp.op = "reload"
  /\ savedGameState # NoValue
  /\ \E g \in savedGameState :
        /\ g.ui.screen = "playing"
        /\ HasIndex(g.rounds, g.ui.currentRoundIndex)
        /\ \E k \in 1..Len(At(g.rounds, g.ui.currentRoundIndex).trickWinners) :
              At(g.rounds, g.ui.currentRoundIndex).trickWinners[k] = 0

\* C34, one step: when recording a trick moves the screen from playing to
\* summary, the tricks taken in the current round add up to its hand size.
C34_RoundCompletedStep ==
  (lastOp'.op = "record_trick_winner" /\ ui.screen = "playing" /\ ui'.screen = "summary")
    => SumSeq(At(rounds', ui'.currentRoundIndex).tricksTaken)
         = At(rounds', ui'.currentRoundIndex).handSize

\* C34: record_trick_winner treats a round as complete only when all its
\* tricks are recorded, also in a round that was quit mid-round and
\* re-entered by the undo on the summary.
C34_CompleteRoundHasAllTricks == [][C34_RoundCompletedStep]_vars

\* The current round's scores are the scoring formula applied to its bids
\* and tricks taken, player by player.
scoresFollowFormula(round) ==
  /\ Len(round.roundScores) = Len(round.bids)
  /\ \A p \in 1..Len(round.bids) :
        round.roundScores[p] =
          round.tricksTaken[p] + (IF round.bids[p] = round.tricksTaken[p] THEN 10 ELSE 0)

\* The round a quit during the bidding of round 0 leaves: nothing bid,
\* nothing played, every score and total zero.
isUnplayedRound(round) ==
  /\ round.roundIndex = 0
  /\ round.trickWinners = <<>>
  /\ \A p \in 1..Len(round.bids) :
        /\ round.bids[p] = 0
        /\ round.tricksTaken[p] = 0
        /\ round.roundScores[p] = 0
        /\ round.totalsAfterRound[p] = 0

\* C35 as stated: on every summary screen the current round's scores follow
\* the scoring formula, a quit during the bidding of round 0 included.
C35_SummaryScoresFollowFormula ==
  (ui.screen = "summary" /\ currentRoundExists) => scoresFollowFormula(currentRound)

\* C35 amended, entering the summary: recording the final trick, a quit
\* during play and a quit during the bidding of a later round leave scores
\* that follow the formula; a quit during the bidding of round 0 leaves
\* the unplayed round.
C35_EnterSummaryStep ==
  (/\ lastOp'.op \in {"record_trick_winner", "quit_game"}
   /\ ui.screen \in {"bidding", "playing"}
   /\ ui'.screen = "summary")
    => LET round == At(rounds', ui'.currentRoundIndex)
       IN IF lastOp'.op = "quit_game" /\ ui.screen = "bidding" /\ ui.currentRoundIndex = 0
          THEN Len(rounds') = 1 /\ isUnplayedRound(round)
          ELSE scoresFollowFormula(round)

\* C35 amended, every summary screen: the current round's scores follow
\* the formula, or the round is the unplayed round 0 of a game quit before
\* its first bidding ended.
C35_SummaryState ==
  (ui.screen = "summary" /\ currentRoundExists)
    => \/ scoresFollowFormula(currentRound)
       \/ Len(rounds) = 1 /\ isUnplayedRound(currentRound)

\* C35 amended: summary scores follow the scoring formula except in the
\* unplayed round left by a quit during the bidding of round 0, whose
\* scores are all zero.
C35_SummaryScores ==
  [][C35_EnterSummaryStep]_vars /\ []C35_SummaryState

\* C35 witness: a quit during play, after fewer tricks than the hand size,
\* left a summary on which some player made the bid exactly.
C35_Witness ==
  /\ lastOp.op = "quit_game"
  /\ lastOp.arg = 1
  /\ ui.screen = "summary"
  /\ currentRoundExists
  /\ Len(currentRound.trickWinners) > 0
  /\ Len(currentRound.trickWinners) < currentRound.handSize
  /\ \E p \in 1..Len(currentRound.bids) :
        /\ currentRound.bids[p] = currentRound.tricksTaken[p]
        /\ currentRound.roundScores[p] = currentRound.tricksTaken[p] + 10

\* The state begin_playing is to produce from a bidding state: screen
\* playing, trick 1, the seat after the dealer leading, the current round's
\* trick history empty, everything else (bids included) as it was.
playBegun(s) ==
  LET k == s.ui.currentRoundIndex + 1
  IN [config |-> s.config,
      rounds |-> [s.rounds EXCEPT ![k].trickWinners = <<>>],
      ui |-> [s.ui EXCEPT !.screen = "playing",
                          !.currentTrick = 1,
                          !.currentLeaderIndex =
                             (s.rounds[k].dealerIndex + 1) % s.config.numberOfPlayers]]

\* begin_playing may act: bidding screen, every player has bid, and the
\* bids do not add up to the hand size (the last bid is not the forbidden
\* value).
mayBeginPlaying(s) ==
  /\ s.ui.screen = "bidding"
  /\ HasIndex(s.rounds, s.ui.currentRoundIndex)
  /\ s.ui.currentBidTurn = s.config.numberOfPlayers
  /\ SumSeq(At(s.rounds, s.ui.currentRoundIndex).bids)
       # At(s.rounds, s.ui.currentRoundIndex).handSize

\* The state with the dealer's bid of the current round replaced.
withDealerBid(s, value) ==
  LET k == s.ui.currentRoundIndex + 1
  IN [s EXCEPT !.rounds[k].bids[s.rounds[k].dealerIndex + 1] = value]

\* C36, the handler on every state: beginPlaying returns the begun round
\* where it may act and the state unchanged everywhere else.
C36_HandlerOnEveryState ==
  beginPlaying(GameState) =
    (IF mayBeginPlaying(GameState) THEN playBegun(GameState) ELSE GameState)

\* C36, the forbidden last bid: on a bidding screen, whatever value in
\* 0..hand size stands as the dealer's bid, beginPlaying acts exactly when
\* every player has bid and that value is not the forbidden one.
C36_HandlerOnEveryDealerBid ==
  (ui.screen = "bidding" /\ currentRoundExists) =>
    \A value \in 0..currentRound.handSize :
      LET s == withDealerBid(GameState, value)
      IN beginPlaying(s) = (IF mayBeginPlaying(s) THEN playBegun(s) ELSE s)

\* C36, one step: a begin_playing that changed the state was taken on a
\* bidding screen with all bids in and the last one allowed, and produced
\* the begun round.
C36_BeginPlayingStep ==
  lastOp'.op = "begin_playing" =>
    IF mayBeginPlaying(GameState)
    THEN [config |-> config', rounds |-> rounds', ui |-> ui'] = playBegun(GameState)
    ELSE UNCHANGED <<config, rounds, ui>>

\* C36: begin_playing changes the state only on the bidding screen, once
\* every player has bid and the last bid is not the forbidden value; it
\* then sets screen playing, trick 1, the first leader and an empty trick
\* history and leaves the bids; in every other state it is a no-op.
C36_BeginPlaying ==
  /\ [][C36_BeginPlayingStep]_vars
  /\ []C36_HandlerOnEveryState
  /\ []C36_HandlerOnEveryDealerBid

\* C36 witness: begin_playing has just opened play on a round in which
\* some player bid more than nothing.
C36_Witness ==
  /\ lastOp.op = "begin_playing"
  /\ lastOp.changed
  /\ ui.screen = "playing"
  /\ ui.currentTrick = 1
  /\ currentRoundExists
  /\ currentRound.trickWinners = <<>>
  /\ ui.currentLeaderIndex = (currentRound.dealerIndex + 1) % config.numberOfPlayers
  /\ \E p \in 1..Len(currentRound.bids) : currentRound.bids[p] > 0

\* C37, one step: a step other than resume that changes the screen is one
\* of the eight listed screen changes, made by the listed operation.
C37_ScreenChangeStep ==
  (ui'.screen # ui.screen /\ lastOp'.op # "resume") =>
    \/ ui.screen = "config" /\ ui'.screen = "bidding" /\ lastOp'.op = "start_game"
    \/ ui.screen = "bidding" /\ ui'.screen = "playing" /\ lastOp'.op = "begin_playing"
          /\ ui.currentBidTurn = config.numberOfPlayers
    \/ ui.screen = "playing" /\ ui'.screen = "summary"
          /\ lastOp'.op \in {"record_trick_winner", "quit_game"}
    \/ ui.screen = "bidding" /\ ui'.screen = "summary" /\ lastOp'.op = "quit_game"
    \/ ui.screen = "playing" /\ ui'.screen = "bidding" /\ lastOp'.op = "undo"
          /\ currentRound.trickWinners = <<>>
    \/ ui.screen = "summary" /\ ui'.screen = "playing" /\ lastOp'.op = "undo"
    \/ ui.screen = "summary" /\ ui'.screen = "bidding" /\ lastOp'.op = "next_round"
    \/ ui.screen = "summary" /\ ui'.screen = "config" /\ lastOp'.op = "new_game"

\* C37: apart from resume, the screen changes only along configuring to
\* bidding (start_game), bidding to playing (begin-play after the last
\* bid), playing to summary (final trick or quit_game), bidding to summary
\* (quit_game), playing to bidding (undo with no trick recorded), summary
\* to playing (undo), summary to bidding (next_round) and summary to
\* configuring (new_game).
C37_ScreenChanges == [][C37_ScreenChangeStep]_vars

\* C37 witness: an undo has just taken the summary of a completed round of
\* two or more tricks back to the playing screen, at its last trick.
C37_Witness ==
  /\ lastOp.op = "undo"
  /\ lastOp.changed
  /\ ui.screen = "playing"
  /\ currentRoundExists
  /\ currentRound.handSize >= 2
  /\ ui.currentTrick = currentRound.handSize
  /\ Len(currentRound.trickWinners) = currentRound.handSize - 1

\* C38: the screen is configuring exactly when the round list is empty;
\* on the bidding, playing and summary screens the round index points into
\* the round list, the bid-turn lies in 0..player count, and the bids,
\* tricks taken, round scores and totals of every round have one entry per
\* player.
C38_CursorAndRounds ==
  /\ (ui.screen = "config") <=> (rounds = <<>>)
  /\ ui.screen \in {"bidding", "playing", "summary"} =>
        /\ 0 <= ui.currentRoundIndex
        /\ ui.currentRoundIndex < Len(rounds)
        /\ 0 <= ui.currentBidTurn
        /\ ui.currentBidTurn <= config.numberOfPlayers
        /\ \A k \in 1..Len(rounds) :
              /\ Len(rounds[k].bids) = config.numberOfPlayers
              /\ Len(rounds[k].tricksTaken) = config.numberOfPlayers
              /\ Len(rounds[k].roundScores) = config.numberOfPlayers
              /\ Len(rounds[k].totalsAfterRound) = config.numberOfPlayers

\* C38 witness: a quit has cut the round list short of the schedule and
\* left the cursor on the summary of its last round.
C38_Witness ==
  /\ lastOp.op = "quit_game"
  /\ lastOp.arg = 1
  /\ ui.screen = "summary"
  /\ Len(rounds) < 2 * config.startingHandSize - 1
  /\ ui.currentRoundIndex = Len(rounds) - 1
  /\ ui.currentBidTurn = 0

\* C39: bidding never deadlocks. On every bidding screen with bid-turn
\* below the player count some value in 0..hand size is accepted by
\* select_bid for the player whose turn it is: the bid is stored and the
\* turn passes on. This includes the dealer after undos and re-bids.
C39_SomeBidIsAccepted ==
  (ui.screen = "bidding" /\ currentRoundExists
     /\ ui.currentBidTurn < config.numberOfPlayers) =>
    \E value \in 0..currentRound.handSize :
      LET accepted == selectBidForCurrentPlayer(GameState, value)
          bidder == (currentRound.dealerIndex + 1 + ui.currentBidTurn)
                      % config.numberOfPlayers
      IN /\ accepted.ui.currentBidTurn = ui.currentBidTurn + 1
         /\ At(accepted.rounds, ui.currentRoundIndex).bids[bidder + 1] = value

\* C39 witness: after an undo and a re-bid by an earlier bidder it is the
\* dealer's turn again, a value is forbidden, and it is the very value the
\* dealer had bid before the undo.
C39_Witness ==
  /\ ui.screen = "bidding"
  /\ currentRoundExists
  /\ lastOp.op = "select_bid"
  /\ lastOp.changed
  /\ ui.currentBidTurn = config.numberOfPlayers - 1
  /\ currentRound.bids[currentRound.dealerIndex + 1] > 0
  /\ getForbiddenLastBidValue(currentRound.bids, currentRound.handSize,
                              getBiddingOrder(currentRound.dealerIndex,
                                              config.numberOfPlayers))
       = Some(currentRound.bids[currentRound.dealerIndex + 1])

\* C40, the start: the state a successful start_game has just produced.
C40_Started == lastOp.op = "start_game" /\ lastOp.changed

\* C40, the end: the summary of round 2h-2, the last of the 2h-1 scheduled
\* rounds; every round has all its tricks recorded, scores that follow the
\* formula and totals that add them to the previous round's totals; and
\* next_round leaves the state as it is.
C40_LastSummary ==
  /\ ui.screen = "summary"
  /\ Len(rounds) = 2 * config.startingHandSize - 1
  /\ ui.currentRoundIndex = 2 * config.startingHandSize - 2
  /\ \A k \in 1..Len(rounds) :
        /\ Len(rounds[k].trickWinners) = rounds[k].handSize
        /\ scoresFollowFormula(rounds[k])
        /\ \A p \in 1..config.numberOfPlayers :
              rounds[k].totalsAfterRound[p] =
                rounds[k].roundScores[p]
                  + (IF k = 1 THEN 0 ELSE rounds[k - 1].totalsAfterRound[p])
  /\ moveToNextRound(GameState) = GameState

\* C40, one step: the round index never goes back; scores and totals of a
\* round change only when the recording of a trick takes that round from
\* playing to its summary with all its tricks recorded; and a summary is
\* left only for the bidding of the following round. So the summary of
\* each round is entered, and the round scored, at most once.
C40_ProgressStep ==
  rounds # <<>> =>
    /\ rounds' # <<>>
    /\ ui'.currentRoundIndex >= ui.currentRoundIndex
    /\ Len(rounds') = Len(rounds)
    /\ \A k \in 1..Len(rounds) :
          (\/ rounds'[k].roundScores # rounds[k].roundScores
           \/ rounds'[k].totalsAfterRound # rounds[k].totalsAfterRound
           \/ (ui'.screen = "summary" /\ ui.screen # "summary"
                 /\ k = ui'.currentRoundIndex + 1))
            => /\ lastOp'.op = "record_trick_winner"
               /\ ui.screen = "playing"
               /\ ui'.screen = "summary"
               /\ k = ui.currentRoundIndex + 1
               /\ ui'.currentRoundIndex = ui.currentRoundIndex
               /\ Len(rounds'[k].trickWinners) = rounds'[k].handSize
    /\ (ui.screen = "summary" /\ ui' # ui)
          => /\ lastOp'.op = "next_round"
             /\ ui'.screen = "bidding"
             /\ ui'.currentRoundIndex = ui.currentRoundIndex + 1

\* C40: termination. From the state a successful start_game produces, with
\* no undo, quit, new game or resume and with the progress steps taken
\* under weak fairness, the summary of the last scheduled round (index
\* 2h-2) is eventually reached, every one of the 2h-1 rounds scored exactly
\* once, and next_round is then a no-op.
C40_Terminates ==
  /\ C40_Started ~> C40_LastSummary
  /\ [][C40_ProgressStep]_vars

\* C40 witness: a game with starting hand 2 stands on the summary of its
\* third and last round, all three rounds scored.
C40_Witness ==
  /\ config.startingHandSize = 2
  /\ C40_LastSummary
  /\ lastOp.op = "record_trick_winner"

====
